---- MODULE Spec2Model ----
(***************************************************************************)
(* Historical column-name resolution of the REACCH Objective 2 data        *)
(* dictionary: the alias tables col_alias shipped in definitions.py and in *)
(* obj2core.py, the recursive resolver current_names, and the dev-time     *)
(* consistency checkers that walk the tables.                              *)
(*                                                                         *)
(* Python values are modelled as follows.  A str is a TLA+ string; the     *)
(* object None is the constant None below, a value that is no table or     *)
(* column name of either shipped table; a tuple is a TLA+ tuple; a dict is *)
(* a function whose domain is the dict's key set.                          *)
(***************************************************************************)
EXTENDS Integers, Sequences, FiniteSets, TLC

\* Python's None (used only inside the value tuple (None, None)).
None == "None"

\* src/python/definitions.py, lines 802-1647: the dict literal bound to col_alias, one item per
\* source line (the line number follows each item), as <<key, value>>.
definitions_col_alias_items ==
  <<
    << <<"stats30_ui", "TIMESTAMP">>, <<"", "">> >>,  \* 804
    << <<"stats30_ui", "RECORD">>, <<"", "">> >>,  \* 805
    << <<"stats30_ui", "dec_ndvi_up1_Avg">>, <<"", "">> >>,  \* 806
    << <<"stats30_ui", "dec_ndvi_up2_Avg">>, <<"", "">> >>,  \* 807
    << <<"stats30_ui", "dec_ndvi_dn1_Avg">>, <<"", "">> >>,  \* 808
    << <<"stats30_ui", "dec_ndvi_dn2_Avg">>, <<"", "">> >>,  \* 809
    << <<"stats30_ui", "dec_pri_up1_Avg">>, <<"", "">> >>,  \* 810
    << <<"stats30_ui", "dec_pri_up2_Avg">>, <<"", "">> >>,  \* 811
    << <<"stats30_ui", "dec_pri_dn1_Avg">>, <<"", "">> >>,  \* 812
    << <<"stats30_ui", "dec_pri_dn2_Avg">>, <<"", "">> >>,  \* 813
    << <<"stats30_ui", "tblcalls_Tot">>, <<"", "">> >>,  \* 814
    << <<"stats5_ui", "TIMESTAMP">>, <<"", "">> >>,  \* 816
    << <<"stats5_ui", "RECORD">>, <<"", "">> >>,  \* 817
    << <<"stats5_ui", "dec_ndvi_up1_Avg">>, <<"", "">> >>,  \* 818
    << <<"stats5_ui", "dec_ndvi_up2_Avg">>, <<"", "">> >>,  \* 819
    << <<"stats5_ui", "dec_ndvi_dn1_Avg">>, <<"", "">> >>,  \* 820
    << <<"stats5_ui", "dec_ndvi_dn2_Avg">>, <<"", "">> >>,  \* 821
    << <<"stats5_ui", "dec_pri_up1_Avg">>, <<"", "">> >>,  \* 822
    << <<"stats5_ui", "dec_pri_up2_Avg">>, <<"", "">> >>,  \* 823
    << <<"stats5_ui", "dec_pri_dn1_Avg">>, <<"", "">> >>,  \* 824
    << <<"stats5_ui", "dec_pri_dn2_Avg">>, <<"", "">> >>,  \* 825
    << <<"stats5_ui", "tblcalls_Tot">>, <<"", "">> >>,  \* 826
    << <<"diagnostics", "TIMESTAMP">>, <<"", "">> >>,  \* 828
    << <<"diagnostics", "RECORD">>, <<"", "">> >>,  \* 829
    << <<"diagnostics", "total_scans">>, <<"", "">> >>,  \* 830
    << <<"diagnostics", "scans_1hz">>, <<"", "">> >>,  \* 831
    << <<"diagnostics", "scans_5s">>, <<"", "">> >>,  \* 832
    << <<"diagnostics", "skipped_10hz_scans">>, <<"", "">> >>,  \* 833
    << <<"diagnostics", "skipped_1hz_scans">>, <<"", "">> >>,  \* 834
    << <<"diagnostics", "skipped_5s_scans">>, <<"", "">> >>,  \* 835
    << <<"diagnostics", "watchdog_errors">>, <<"", "">> >>,  \* 836
    << <<"tsdata_extra", "TIMESTAMP">>, <<"", "">> >>,  \* 838
    << <<"tsdata_extra", "RECORD">>, <<"", "">> >>,  \* 839
    << <<"tsdata_extra", "lgr_n2o">>, <<"", "">> >>,  \* 840
    << <<"tsdata_extra", "lgr_co">>, <<"", "">> >>,  \* 841
    << <<"tsdata_extra", "lgr_h2o">>, <<"", "">> >>,  \* 842
    << <<"tsdata_extra", "pic_co2">>, <<"", "">> >>,  \* 843
    << <<"tsdata_extra", "pic_ch4">>, <<"", "">> >>,  \* 844
    << <<"tsdata_extra", "pic_h2o">>, <<"", "">> >>,  \* 845
    << <<"extra_info", "TIMESTAMP">>, <<"", "">> >>,  \* 847
    << <<"extra_info", "RECORD">>, <<"", "">> >>,  \* 848
    << <<"extra_info", "Decagon_NDVI_installed">>, <<"", "">> >>,  \* 849
    << <<"extra_info", "Decagon_PRI_installed">>, <<"", "">> >>,  \* 850
    << <<"extra_info", "LGR_n2oco_installed">>, <<"", "">> >>,  \* 851
    << <<"extra_info", "lgr_n2o_mult">>, <<"", "">> >>,  \* 852
    << <<"extra_info", "lgr_n2o_offset">>, <<"", "">> >>,  \* 853
    << <<"extra_info", "lgr_co_mult">>, <<"", "">> >>,  \* 854
    << <<"extra_info", "lgr_co_offset">>, <<"", "">> >>,  \* 855
    << <<"extra_info", "lgr_h2o_mult">>, <<"", "">> >>,  \* 856
    << <<"extra_info", "lgr_h2o_offset">>, <<"", "">> >>,  \* 857
    << <<"extra_info", "Picarro_co2ch4_installed">>, <<"", "">> >>,  \* 858
    << <<"extra_info", "pic_co2_mult">>, <<"", "">> >>,  \* 859
    << <<"extra_info", "pic_co2_offset">>, <<"", "">> >>,  \* 860
    << <<"extra_info", "pic_ch4_mult">>, <<"", "">> >>,  \* 861
    << <<"extra_info", "pic_ch4_offset">>, <<"", "">> >>,  \* 862
    << <<"extra_info", "pic_h2o_mult">>, <<"", "">> >>,  \* 863
    << <<"extra_info", "pic_h2o_offset">>, <<"", "">> >>,  \* 864
    << <<"stats30_hfp", "TIMESTAMP">>, <<None, None>> >>,  \* 869
    << <<"stats30_hfp", "RECORD">>, <<None, None>> >>,  \* 870
    << <<"stats30_hfp", "soil_hfp1_heat_flux_Avg">>, <<"stats30", "">> >>,  \* 871
    << <<"stats30_hfp", "soil_hfp1_sensitivity">>, <<"stats30", "">> >>,  \* 872
    << <<"stats30_hfp", "soil_hfp2_heat_flux_Avg">>, <<"stats30", "">> >>,  \* 873
    << <<"stats30_hfp", "soil_hfp2_sensitivity">>, <<"stats30", "">> >>,  \* 874
    << <<"stats30_hfp", "hfp1_samples_Tot">>, <<None, None>> >>,  \* 875
    << <<"stats30_hfp", "hfp2_samples_Tot">>, <<None, None>> >>,  \* 876
    << <<"stats30_hfp", "tblcalls_Tot">>, <<None, None>> >>,  \* 877
    << <<"stats5_hfp", "TIMESTAMP">>, <<None, None>> >>,  \* 879
    << <<"stats5_hfp", "RECORD">>, <<None, None>> >>,  \* 880
    << <<"stats5_hfp", "soil_hfp1_heat_flux_Avg">>, <<"stats5", "">> >>,  \* 881
    << <<"stats5_hfp", "soil_hfp1_sensitivity">>, <<"stats5", "">> >>,  \* 882
    << <<"stats5_hfp", "soil_hfp2_heat_flux_Avg">>, <<"stats5", "">> >>,  \* 883
    << <<"stats5_hfp", "soil_hfp2_sensitivity">>, <<"stats5", "">> >>,  \* 884
    << <<"stats5_hfp", "hfp1_samples_Tot">>, <<None, None>> >>,  \* 885
    << <<"stats5_hfp", "hfp2_samples_Tot">>, <<None, None>> >>,  \* 886
    << <<"stats5_hfp", "tblcalls_Tot">>, <<None, None>> >>,  \* 887
    << <<"site_info", "TIMESTAMP">>, <<"", "">> >>,  \* 892
    << <<"site_info", "RECORD">>, <<"", "">> >>,  \* 893
    << <<"site_info", "UTC_offset">>, <<"", "">> >>,  \* 894
    << <<"site_info", "sonic_azimuth">>, <<"", "">> >>,  \* 895
    << <<"site_info", "NRLite2_sens">>, <<"", "">> >>,  \* 896
    << <<"site_info", "LI190SB_sens">>, <<"", "">> >>,  \* 897
    << <<"site_info", "HFP_1_sens">>, <<"", "">> >>,  \* 898
    << <<"site_info", "HFP_2_sens">>, <<"", "">> >>,  \* 899
    << <<"site_info", "CompileResults">>, <<"", "">> >>,  \* 900
    << <<"site_info", "CardStatus">>, <<"", "">> >>,  \* 901
    << <<"site_info", "RunSig">>, <<"", "">> >>,  \* 902
    << <<"site_info", "ProgSig">>, <<"", "">> >>,  \* 903
    << <<"site_info", "SENSOR_DEC_5TM">>, <<None, None>> >>,  \* 904
    << <<"site_info", "SENSOR_DEC_6RAD">>, <<"", "Dec_6rad_installed">> >>,  \* 905
    << <<"site_info", "Dec_6rad_installed">>, <<None, None>> >>,  \* 907
    << <<"site_info", "SENSOR_LGR_N2OCO">>, <<"", "LGR_n2o_co_installed">> >>,  \* 908
    << <<"site_info", "LGR_n2o_co_installed">>, <<"extra_info", "LGR_n2oco_installed">> >>,  \* 909
    << <<"site_info", "SENSOR_PIC_CO2CH4">>, <<"", "Pic_co2_ch4_installed">> >>,  \* 910
    << <<"site_info", "Pic_co2_ch4_installed">>, <<"extra_info", "Picarro_co2ch4_installed">> >>,  \* 911
    << <<"site_info", "SENSOR_HFP01SC">>, <<"", "hfp_installed">> >>,  \* 912
    << <<"site_info", "hfp_installed">>, <<"", "">> >>,  \* 913
    << <<"stats30_6rad", "TIMESTAMP">>, <<"", "">> >>,  \* 919
    << <<"stats30_6rad", "RECORD">>, <<"", "">> >>,  \* 920
    << <<"stats30_6rad", "dec_6rad_up_Avg(1)">>, <<"", "dec_6rad_uplook_Avg(1)">> >>,  \* 921
    << <<"stats30_6rad", "dec_6rad_up_Avg(2)">>, <<"", "dec_6rad_uplook_Avg(2)">> >>,  \* 922
    << <<"stats30_6rad", "dec_6rad_up_Avg(3)">>, <<"", "dec_6rad_uplook_Avg(3)">> >>,  \* 923
    << <<"stats30_6rad", "dec_6rad_up_Avg(4)">>, <<"", "dec_6rad_uplook_Avg(4)">> >>,  \* 924
    << <<"stats30_6rad", "dec_6rad_up_Avg(5)">>, <<"", "dec_6rad_uplook_Avg(5)">> >>,  \* 925
    << <<"stats30_6rad", "dec_6rad_up_Avg(6)">>, <<"", "dec_6rad_uplook_Avg(6)">> >>,  \* 926
    << <<"stats30_6rad", "dec_6rad_dn_Avg(1)">>, <<"", "dec_6rad_dnlook_Avg(1)">> >>,  \* 927
    << <<"stats30_6rad", "dec_6rad_dn_Avg(2)">>, <<"", "dec_6rad_dnlook_Avg(2)">> >>,  \* 928
    << <<"stats30_6rad", "dec_6rad_dn_Avg(3)">>, <<"", "dec_6rad_dnlook_Avg(3)">> >>,  \* 929
    << <<"stats30_6rad", "dec_6rad_dn_Avg(4)">>, <<"", "dec_6rad_dnlook_Avg(4)">> >>,  \* 930
    << <<"stats30_6rad", "dec_6rad_dn_Avg(5)">>, <<"", "dec_6rad_dnlook_Avg(5)">> >>,  \* 931
    << <<"stats30_6rad", "dec_6rad_dn_Avg(6)">>, <<"", "dec_6rad_dnlook_Avg(6)">> >>,  \* 932
    << <<"stats30_6rad", "dec_6rad_uplook_Avg(1)">>, <<"", "">> >>,  \* 933
    << <<"stats30_6rad", "dec_6rad_uplook_Avg(2)">>, <<"", "">> >>,  \* 934
    << <<"stats30_6rad", "dec_6rad_uplook_Avg(3)">>, <<"", "">> >>,  \* 935
    << <<"stats30_6rad", "dec_6rad_uplook_Avg(4)">>, <<"", "">> >>,  \* 936
    << <<"stats30_6rad", "dec_6rad_uplook_Avg(5)">>, <<"", "">> >>,  \* 937
    << <<"stats30_6rad", "dec_6rad_uplook_Avg(6)">>, <<"", "">> >>,  \* 938
    << <<"stats30_6rad", "dec_6rad_dnlook_Avg(1)">>, <<"", "">> >>,  \* 939
    << <<"stats30_6rad", "dec_6rad_dnlook_Avg(2)">>, <<"", "">> >>,  \* 940
    << <<"stats30_6rad", "dec_6rad_dnlook_Avg(3)">>, <<"", "">> >>,  \* 941
    << <<"stats30_6rad", "dec_6rad_dnlook_Avg(4)">>, <<"", "">> >>,  \* 942
    << <<"stats30_6rad", "dec_6rad_dnlook_Avg(5)">>, <<"", "">> >>,  \* 943
    << <<"stats30_6rad", "dec_6rad_dnlook_Avg(6)">>, <<"", "">> >>,  \* 944
    << <<"stats30_6rad", "tblcalls_Tot">>, <<"", "">> >>,  \* 945
    << <<"stats5_6rad", "TIMESTAMP">>, <<"", "">> >>,  \* 947
    << <<"stats5_6rad", "RECORD">>, <<"", "">> >>,  \* 948
    << <<"stats5_6rad", "dec_6rad_up_Avg(1)">>, <<"", "dec_6rad_uplook_Avg(1)">> >>,  \* 949
    << <<"stats5_6rad", "dec_6rad_up_Avg(2)">>, <<"", "dec_6rad_uplook_Avg(2)">> >>,  \* 950
    << <<"stats5_6rad", "dec_6rad_up_Avg(3)">>, <<"", "dec_6rad_uplook_Avg(3)">> >>,  \* 951
    << <<"stats5_6rad", "dec_6rad_up_Avg(4)">>, <<"", "dec_6rad_uplook_Avg(4)">> >>,  \* 952
    << <<"stats5_6rad", "dec_6rad_up_Avg(5)">>, <<"", "dec_6rad_uplook_Avg(5)">> >>,  \* 953
    << <<"stats5_6rad", "dec_6rad_up_Avg(6)">>, <<"", "dec_6rad_uplook_Avg(6)">> >>,  \* 954
    << <<"stats5_6rad", "dec_6rad_dn_Avg(1)">>, <<"", "dec_6rad_dnlook_Avg(1)">> >>,  \* 955
    << <<"stats5_6rad", "dec_6rad_dn_Avg(2)">>, <<"", "dec_6rad_dnlook_Avg(2)">> >>,  \* 956
    << <<"stats5_6rad", "dec_6rad_dn_Avg(3)">>, <<"", "dec_6rad_dnlook_Avg(3)">> >>,  \* 957
    << <<"stats5_6rad", "dec_6rad_dn_Avg(4)">>, <<"", "dec_6rad_dnlook_Avg(4)">> >>,  \* 958
    << <<"stats5_6rad", "dec_6rad_dn_Avg(5)">>, <<"", "dec_6rad_dnlook_Avg(5)">> >>,  \* 959
    << <<"stats5_6rad", "dec_6rad_dn_Avg(6)">>, <<"", "dec_6rad_dnlook_Avg(6)">> >>,  \* 960
    << <<"stats5_6rad", "dec_6rad_uplook_Avg(1)">>, <<"", "">> >>,  \* 961
    << <<"stats5_6rad", "dec_6rad_uplook_Avg(2)">>, <<"", "">> >>,  \* 962
    << <<"stats5_6rad", "dec_6rad_uplook_Avg(3)">>, <<"", "">> >>,  \* 963
    << <<"stats5_6rad", "dec_6rad_uplook_Avg(4)">>, <<"", "">> >>,  \* 964
    << <<"stats5_6rad", "dec_6rad_uplook_Avg(5)">>, <<"", "">> >>,  \* 965
    << <<"stats5_6rad", "dec_6rad_uplook_Avg(6)">>, <<"", "">> >>,  \* 966
    << <<"stats5_6rad", "dec_6rad_dnlook_Avg(1)">>, <<"", "">> >>,  \* 967
    << <<"stats5_6rad", "dec_6rad_dnlook_Avg(2)">>, <<"", "">> >>,  \* 968
    << <<"stats5_6rad", "dec_6rad_dnlook_Avg(3)">>, <<"", "">> >>,  \* 969
    << <<"stats5_6rad", "dec_6rad_dnlook_Avg(4)">>, <<"", "">> >>,  \* 970
    << <<"stats5_6rad", "dec_6rad_dnlook_Avg(5)">>, <<"", "">> >>,  \* 971
    << <<"stats5_6rad", "dec_6rad_dnlook_Avg(6)">>, <<"", "">> >>,  \* 972
    << <<"stats5_6rad", "tblcalls_Tot">>, <<"", "">> >>,  \* 973
    << <<"tsdata", "TIMESTAMP">>, <<"", "">> >>,  \* 978
    << <<"tsdata", "RECORD">>, <<"", "">> >>,  \* 979
    << <<"tsdata", "Ux">>, <<"", "">> >>,  \* 980
    << <<"tsdata", "Uy">>, <<"", "">> >>,  \* 981
    << <<"tsdata", "Uz">>, <<"", "">> >>,  \* 982
    << <<"tsdata", "Ts">>, <<"", "">> >>,  \* 983
    << <<"tsdata", "diag_sonic">>, <<"", "">> >>,  \* 984
    << <<"tsdata", "CO2">>, <<"", "">> >>,  \* 985
    << <<"tsdata", "H2O">>, <<"", "">> >>,  \* 986
    << <<"tsdata", "diag_irga">>, <<"", "">> >>,  \* 987
    << <<"tsdata", "amb_tmpr">>, <<"", "">> >>,  \* 988
    << <<"tsdata", "amb_press">>, <<"", "">> >>,  \* 989
    << <<"tsdata", "CO2_signal">>, <<"", "">> >>,  \* 990
    << <<"tsdata", "H2O_signal">>, <<"", "">> >>,  \* 991
    << <<"stats30", "TIMESTAMP">>, <<"", "">> >>,  \* 993
    << <<"stats30", "RECORD">>, <<"", "">> >>,  \* 994
    << <<"stats30", "L">>, <<"", "">> >>,  \* 995
    << <<"stats30", "u_star">>, <<"", "">> >>,  \* 996
    << <<"stats30", "tau">>, <<"", "">> >>,  \* 997
    << <<"stats30", "Fc_wpl">>, <<"", "">> >>,  \* 998
    << <<"stats30", "LE_wpl">>, <<"", "">> >>,  \* 999
    << <<"stats30", "Hc">>, <<"", "">> >>,  \* 1000
    << <<"stats30", "Ts_Avg">>, <<"", "">> >>,  \* 1001
    << <<"stats30", "Ts_Std">>, <<"", "">> >>,  \* 1002
    << <<"stats30", "Tc_Avg">>, <<"", "">> >>,  \* 1003
    << <<"stats30", "Uz_Std">>, <<"", "">> >>,  \* 1004
    << <<"stats30", "wnd_spd">>, <<"", "">> >>,  \* 1005
    << <<"stats30", "rslt_wnd_spd">>, <<"", "">> >>,  \* 1006
    << <<"stats30", "rslt_wnd_dir">>, <<"", "">> >>,  \* 1007
    << <<"stats30", "std_wnd_dir">>, <<"", "">> >>,  \* 1008
    << <<"stats30", "sonic_uptime">>, <<"", "">> >>,  \* 1009
    << <<"stats30", "CO2_ppm_Avg_Avg">>, <<"", "CO2_ppm_Avg">> >>,  \* 1010
    << <<"stats30", "CO2_ppm_Avg">>, <<"", "">> >>,  \* 1011
    << <<"stats30", "CO2_mg_m3_Avg">>, <<"", "">> >>,  \* 1012
    << <<"stats30", "CO2_mg_m3_Std">>, <<"", "">> >>,  \* 1013
    << <<"stats30", "CO2_signal_Avg">>, <<"", "">> >>,  \* 1014
    << <<"stats30", "H2O_g_kg_Avg">>, <<"", "">> >>,  \* 1015
    << <<"stats30", "H2O_g_m3_Avg">>, <<"", "">> >>,  \* 1016
    << <<"stats30", "H2O_g_m3_Std">>, <<"", "">> >>,  \* 1017
    << <<"stats30", "H2O_signal_Avg">>, <<"", "">> >>,  \* 1018
    << <<"stats30", "amb_tmpr_Avg">>, <<"", "">> >>,  \* 1019
    << <<"stats30", "amb_press_Avg">>, <<"", "">> >>,  \* 1020
    << <<"stats30", "irga_uptime">>, <<"", "">> >>,  \* 1021
    << <<"stats30", "T_hmp_Avg">>, <<"", "">> >>,  \* 1022
    << <<"stats30", "RH_hmp_Avg">>, <<"", "">> >>,  \* 1023
    << <<"stats30", "e_hmp_Avg">>, <<"", "">> >>,  \* 1024
    << <<"stats30", "e_sat_hmp_Avg">>, <<"", "">> >>,  \* 1025
    << <<"stats30", "Rn_Avg">>, <<"", "">> >>,  \* 1026
    << <<"stats30", "Rn_meas_Avg">>, <<"", "">> >>,  \* 1027
    << <<"stats30", "PAR_totflx_Tot">>, <<"", "">> >>,  \* 1028
    << <<"stats30", "PAR_flxdens_Avg">>, <<"", "">> >>,  \* 1029
    << <<"stats30", "Met1_wnd_spd">>, <<"", "">> >>,  \* 1030
    << <<"stats30", "Met1_rslt_wnd_spd">>, <<"", "">> >>,  \* 1031
    << <<"stats30", "Met1_wnd_dir">>, <<"", "Met1_rslt_wnd_dir">> >>,  \* 1032
    << <<"stats30", "Met1_rslt_wnd_dir">>, <<"", "">> >>,  \* 1033
    << <<"stats30", "Met1_std_wnd_dir">>, <<"", "">> >>,  \* 1034
    << <<"stats30", "Rain_mm_Tot">>, <<"", "">> >>,  \* 1035
    << <<"stats30", "soil_5TM_ID5_epsilon_Avg">>, <<"", "soil_5TM_ID5_E_Avg">> >>,  \* 1036
    << <<"stats30", "soil_5TM_ID5_E_Avg">>, <<"", "">> >>,  \* 1037
    << <<"stats30", "soil_5TM_ID5_T_Avg">>, <<"", "">> >>,  \* 1038
    << <<"stats30", "soil_5TM_ID5_VWC_Avg">>, <<"", "">> >>,  \* 1039
    << <<"stats30", "soil_5TM_ID6_epsilon_Avg">>, <<"", "soil_5TM_ID6_E_Avg">> >>,  \* 1040
    << <<"stats30", "soil_5TM_ID6_E_Avg">>, <<"", "">> >>,  \* 1041
    << <<"stats30", "soil_5TM_ID6_T_Avg">>, <<"", "">> >>,  \* 1042
    << <<"stats30", "soil_5TM_ID6_VWC_Avg">>, <<"", "">> >>,  \* 1043
    << <<"stats30", "soil_5TM_ID7_epsilon_Avg">>, <<"", "soil_5TM_ID7_E_Avg">> >>,  \* 1044
    << <<"stats30", "soil_5TM_ID7_E_Avg">>, <<"", "">> >>,  \* 1045
    << <<"stats30", "soil_5TM_ID7_T_Avg">>, <<"", "">> >>,  \* 1046
    << <<"stats30", "soil_5TM_ID7_VWC_Avg">>, <<"", "">> >>,  \* 1047
    << <<"stats30", "soil_5TM_ID8_epsilon_Avg">>, <<"", "soil_5TM_ID8_E_Avg">> >>,  \* 1048
    << <<"stats30", "soil_5TM_ID8_E_Avg">>, <<"", "">> >>,  \* 1049
    << <<"stats30", "soil_5TM_ID8_T_Avg">>, <<"", "">> >>,  \* 1050
    << <<"stats30", "soil_5TM_ID8_VWC_Avg">>, <<"", "">> >>,  \* 1051
    << <<"stats30", "soil_5TM_ID9_epsilon_Avg">>, <<"", "soil_5TM_ID9_E_Avg">> >>,  \* 1052
    << <<"stats30", "soil_5TM_ID9_E_Avg">>, <<"", "">> >>,  \* 1053
    << <<"stats30", "soil_5TM_ID9_T_Avg">>, <<"", "">> >>,  \* 1054
    << <<"stats30", "soil_5TM_ID9_VWC_Avg">>, <<"", "">> >>,  \* 1055
    << <<"stats30", "soil_hfp1_heat_flux_Avg">>, <<"", "">> >>,  \* 1056
    << <<"stats30", "soil_hfp1_sensitivity">>, <<"", "">> >>,  \* 1057
    << <<"stats30", "soil_hfp2_heat_flux_Avg">>, <<"", "">> >>,  \* 1058
    << <<"stats30", "soil_hfp2_sensitivity">>, <<"", "">> >>,  \* 1059
    << <<"stats30", "panel_tmpr_Avg">>, <<"", "">> >>,  \* 1060
    << <<"stats30", "batt_volt_Avg">>, <<"", "">> >>,  \* 1061
    << <<"stats5", "TIMESTAMP">>, <<"", "">> >>,  \* 1063
    << <<"stats5", "RECORD">>, <<"", "">> >>,  \* 1064
    << <<"stats5", "L">>, <<"", "">> >>,  \* 1065
    << <<"stats5", "u_star">>, <<"", "">> >>,  \* 1066
    << <<"stats5", "tau">>, <<"", "">> >>,  \* 1067
    << <<"stats5", "Fc_wpl">>, <<"", "">> >>,  \* 1068
    << <<"stats5", "LE_wpl">>, <<"", "">> >>,  \* 1069
    << <<"stats5", "Hc">>, <<"", "">> >>,  \* 1070
    << <<"stats5", "Ts_Avg">>, <<"", "">> >>,  \* 1071
    << <<"stats5", "Ts_Std">>, <<"", "">> >>,  \* 1072
    << <<"stats5", "Tc_Avg">>, <<"", "">> >>,  \* 1073
    << <<"stats5", "Uz_Std">>, <<"", "">> >>,  \* 1074
    << <<"stats5", "wnd_spd">>, <<"", "">> >>,  \* 1075
    << <<"stats5", "rslt_wnd_spd">>, <<"", "">> >>,  \* 1076
    << <<"stats5", "rslt_wnd_dir">>, <<"", "">> >>,  \* 1077
    << <<"stats5", "std_wnd_dir">>, <<"", "">> >>,  \* 1078
    << <<"stats5", "sonic_uptime">>, <<"", "">> >>,  \* 1079
    << <<"stats5", "CO2_ppm_Avg_Avg">>, <<"", "CO2_ppm_Avg">> >>,  \* 1080
    << <<"stats5", "CO2_ppm_Avg">>, <<"", "">> >>,  \* 1081
    << <<"stats5", "CO2_mg_m3_Avg">>, <<"", "">> >>,  \* 1082
    << <<"stats5", "CO2_mg_m3_Std">>, <<"", "">> >>,  \* 1083
    << <<"stats5", "CO2_signal_Avg">>, <<"", "">> >>,  \* 1084
    << <<"stats5", "H2O_g_kg_Avg">>, <<"", "">> >>,  \* 1085
    << <<"stats5", "H2O_g_m3_Avg">>, <<"", "">> >>,  \* 1086
    << <<"stats5", "H2O_g_m3_Std">>, <<"", "">> >>,  \* 1087
    << <<"stats5", "H2O_signal_Avg">>, <<"", "">> >>,  \* 1088
    << <<"stats5", "amb_tmpr_Avg">>, <<"", "">> >>,  \* 1089
    << <<"stats5", "amb_press_Avg">>, <<"", "">> >>,  \* 1090
    << <<"stats5", "irga_uptime">>, <<"", "">> >>,  \* 1091
    << <<"stats5", "T_hmp_Avg">>, <<"", "">> >>,  \* 1092
    << <<"stats5", "RH_hmp_Avg">>, <<"", "">> >>,  \* 1093
    << <<"stats5", "e_hmp_Avg">>, <<"", "">> >>,  \* 1094
    << <<"stats5", "e_sat_hmp_Avg">>, <<"", "">> >>,  \* 1095
    << <<"stats5", "Rn_Avg">>, <<"", "">> >>,  \* 1096
    << <<"stats5", "Rn_meas_Avg">>, <<"", "">> >>,  \* 1097
    << <<"stats5", "PAR_totflx_Tot">>, <<"", "">> >>,  \* 1098
    << <<"stats5", "PAR_flxdens_Avg">>, <<"", "">> >>,  \* 1099
    << <<"stats5", "Met1_wnd_spd">>, <<"", "">> >>,  \* 1100
    << <<"stats5", "Met1_rslt_wnd_spd">>, <<"", "">> >>,  \* 1101
    << <<"stats5", "Met1_wnd_dir">>, <<"", "Met1_rslt_wnd_dir">> >>,  \* 1102
    << <<"stats5", "Met1_rslt_wnd_dir">>, <<"", "">> >>,  \* 1103
    << <<"stats5", "Met1_std_wnd_dir">>, <<"", "">> >>,  \* 1104
    << <<"stats5", "Rain_mm_Tot">>, <<"", "">> >>,  \* 1105
    << <<"stats5", "soil_5TM_ID5_epsilon_Avg">>, <<"", "soil_5TM_ID5_E_Avg">> >>,  \* 1106
    << <<"stats5", "soil_5TM_ID5_E_Avg">>, <<"", "">> >>,  \* 1107
    << <<"stats5", "soil_5TM_ID5_T_Avg">>, <<"", "">> >>,  \* 1108
    << <<"stats5", "soil_5TM_ID5_VWC_Avg">>, <<"", "">> >>,  \* 1109
    << <<"stats5", "soil_5TM_ID6_epsilon_Avg">>, <<"", "soil_5TM_ID6_E_Avg">> >>,  \* 1110
    << <<"stats5", "soil_5TM_ID6_E_Avg">>, <<"", "">> >>,  \* 1111
    << <<"stats5", "soil_5TM_ID6_T_Avg">>, <<"", "">> >>,  \* 1112
    << <<"stats5", "soil_5TM_ID6_VWC_Avg">>, <<"", "">> >>,  \* 1113
    << <<"stats5", "soil_5TM_ID7_epsilon_Avg">>, <<"", "soil_5TM_ID7_E_Avg">> >>,  \* 1114
    << <<"stats5", "soil_5TM_ID7_E_Avg">>, <<"", "">> >>,  \* 1115
    << <<"stats5", "soil_5TM_ID7_T_Avg">>, <<"", "">> >>,  \* 1116
    << <<"stats5", "soil_5TM_ID7_VWC_Avg">>, <<"", "">> >>,  \* 1117
    << <<"stats5", "soil_5TM_ID8_epsilon_Avg">>, <<"", "soil_5TM_ID8_E_Avg">> >>,  \* 1118
    << <<"stats5", "soil_5TM_ID8_E_Avg">>, <<"", "">> >>,  \* 1119
    << <<"stats5", "soil_5TM_ID8_T_Avg">>, <<"", "">> >>,  \* 1120
    << <<"stats5", "soil_5TM_ID8_VWC_Avg">>, <<"", "">> >>,  \* 1121
    << <<"stats5", "soil_5TM_ID9_epsilon_Avg">>, <<"", "soil_5TM_ID9_E_Avg">> >>,  \* 1122
    << <<"stats5", "soil_5TM_ID9_E_Avg">>, <<"", "">> >>,  \* 1123
    << <<"stats5", "soil_5TM_ID9_T_Avg">>, <<"", "">> >>,  \* 1124
    << <<"stats5", "soil_5TM_ID9_VWC_Avg">>, <<"", "">> >>,  \* 1125
    << <<"stats5", "soil_hfp1_heat_flux_Avg">>, <<"", "">> >>,  \* 1126
    << <<"stats5", "soil_hfp1_sensitivity">>, <<"", "">> >>,  \* 1127
    << <<"stats5", "soil_hfp2_heat_flux_Avg">>, <<"", "">> >>,  \* 1128
    << <<"stats5", "soil_hfp2_sensitivity">>, <<"", "">> >>,  \* 1129
    << <<"stats5", "panel_tmpr_Avg">>, <<"", "">> >>,  \* 1130
    << <<"stats5", "batt_volt_Avg">>, <<"", "">> >>,  \* 1131
    << <<"site_daily", "TIMESTAMP">>, <<"", "">> >>,  \* 1133
    << <<"site_daily", "RECORD">>, <<"", "">> >>,  \* 1134
    << <<"site_daily", "sonic_azimuth">>, <<None, None>> >>,  \* 1136
    << <<"site_daily", "latitude">>, <<"", "latitude_Med">> >>,  \* 1137
    << <<"site_daily", "latitude_Med">>, <<"", "">> >>,  \* 1138
    << <<"site_daily", "latitude_a_Avg">>, <<None, None>> >>,  \* 1139
    << <<"site_daily", "latitude_b_Avg">>, <<None, None>> >>,  \* 1140
    << <<"site_daily", "longitude">>, <<"", "longitude_Med">> >>,  \* 1141
    << <<"site_daily", "longitude_Med">>, <<"", "">> >>,  \* 1142
    << <<"site_daily", "longitude_a_Avg">>, <<None, None>> >>,  \* 1143
    << <<"site_daily", "longitude_b_Avg">>, <<None, None>> >>,  \* 1144
    << <<"site_daily", "magnetic_variation_Med">>, <<"", "">> >>,  \* 1145
    << <<"site_daily", "magnetic_variation_Avg">>, <<None, None>> >>,  \* 1146
    << <<"site_daily", "nmbr_satellites_Avg">>, <<"", "">> >>,  \* 1147
    << <<"site_daily", "altitude_Med">>, <<"", "">> >>,  \* 1148
    << <<"site_daily", "altitude_Avg">>, <<"", "">> >>,  \* 1149
    << <<"site_daily", "gps_ready_Min">>, <<"", "">> >>,  \* 1150
    << <<"site_daily", "max_clock_change">>, <<"", "">> >>,  \* 1151
    << <<"site_daily", "nmbr_clock_change">>, <<"", "">> >>,  \* 1152
    << <<"site_daily", "RunSig">>, <<None, None>> >>,  \* 1154
    << <<"site_daily", "ProgSig">>, <<None, None>> >>,  \* 1155
    << <<"site_daily", "batt_volt_Min">>, <<"", "">> >>,  \* 1156
    << <<"site_daily", "batt_volt_TMn">>, <<"", "">> >>,  \* 1157
    << <<"site_daily", "batt_volt_Max">>, <<"", "">> >>,  \* 1158
    << <<"site_daily", "batt_volt_TMx">>, <<"", "">> >>,  \* 1159
    << <<"site_daily", "T_hmp_Min">>, <<"", "">> >>,  \* 1160
    << <<"site_daily", "T_hmp_TMn">>, <<"", "">> >>,  \* 1161
    << <<"site_daily", "T_hmp_Max">>, <<"", "">> >>,  \* 1162
    << <<"site_daily", "T_hmp_TMx">>, <<"", "">> >>,  \* 1163
    << <<"stats30_soil", "TIMESTAMP">>, <<None, None>> >>,  \* 1168
    << <<"stats30_soil", "RECORD">>, <<None, None>> >>,  \* 1169
    << <<"stats30_soil", "soil_5TM_ID5_epsilon_Avg">>, <<"stats30", "">> >>,  \* 1170
    << <<"stats30_soil", "soil_5TM_ID5_T_Avg">>, <<"stats30", "">> >>,  \* 1171
    << <<"stats30_soil", "soil_5TM_ID5_VWC_Avg">>, <<"stats30", "">> >>,  \* 1172
    << <<"stats30_soil", "soil_5TM_ID6_epsilon_Avg">>, <<"stats30", "">> >>,  \* 1173
    << <<"stats30_soil", "soil_5TM_ID6_T_Avg">>, <<"stats30", "">> >>,  \* 1174
    << <<"stats30_soil", "soil_5TM_ID6_VWC_Avg">>, <<"stats30", "">> >>,  \* 1175
    << <<"stats30_soil", "soil_5TM_ID7_epsilon_Avg">>, <<"stats30", "">> >>,  \* 1176
    << <<"stats30_soil", "soil_5TM_ID7_T_Avg">>, <<"stats30", "">> >>,  \* 1177
    << <<"stats30_soil", "soil_5TM_ID7_VWC_Avg">>, <<"stats30", "">> >>,  \* 1178
    << <<"stats30_soil", "soil_5TM_ID8_epsilon_Avg">>, <<"stats30", "">> >>,  \* 1179
    << <<"stats30_soil", "soil_5TM_ID8_T_Avg">>, <<"stats30", "">> >>,  \* 1180
    << <<"stats30_soil", "soil_5TM_ID8_VWC_Avg">>, <<"stats30", "">> >>,  \* 1181
    << <<"stats30_soil", "soil_5TM_ID9_epsilon_Avg">>, <<"stats30", "">> >>,  \* 1182
    << <<"stats30_soil", "soil_5TM_ID9_T_Avg">>, <<"stats30", "">> >>,  \* 1183
    << <<"stats30_soil", "soil_5TM_ID9_VWC_Avg">>, <<"stats30", "">> >>,  \* 1184
    << <<"stats30_soil", "soil_hfp1_heat_flux_Avg">>, <<"stats30_hfp", "">> >>,  \* 1185
    << <<"stats30_soil", "soil_hfp1_sensitivity">>, <<"stats30_hfp", "">> >>,  \* 1186
    << <<"stats30_soil", "soil_hfp2_heat_flux_Avg">>, <<"stats30_hfp", "">> >>,  \* 1187
    << <<"stats30_soil", "soil_hfp2_sensitivity">>, <<"stats30_hfp", "">> >>,  \* 1188
    << <<"stats5_soil", "TIMESTAMP">>, <<None, None>> >>,  \* 1190
    << <<"stats5_soil", "RECORD">>, <<None, None>> >>,  \* 1191
    << <<"stats5_soil", "soil_5TM_ID5_epsilon_Avg">>, <<"stats5", "">> >>,  \* 1192
    << <<"stats5_soil", "soil_5TM_ID5_T_Avg">>, <<"stats5", "">> >>,  \* 1193
    << <<"stats5_soil", "soil_5TM_ID5_VWC_Avg">>, <<"stats5", "">> >>,  \* 1194
    << <<"stats5_soil", "soil_5TM_ID6_epsilon_Avg">>, <<"stats5", "">> >>,  \* 1195
    << <<"stats5_soil", "soil_5TM_ID6_T_Avg">>, <<"stats5", "">> >>,  \* 1196
    << <<"stats5_soil", "soil_5TM_ID6_VWC_Avg">>, <<"stats5", "">> >>,  \* 1197
    << <<"stats5_soil", "soil_5TM_ID7_epsilon_Avg">>, <<"stats5", "">> >>,  \* 1198
    << <<"stats5_soil", "soil_5TM_ID7_T_Avg">>, <<"stats5", "">> >>,  \* 1199
    << <<"stats5_soil", "soil_5TM_ID7_VWC_Avg">>, <<"stats5", "">> >>,  \* 1200
    << <<"stats5_soil", "soil_5TM_ID8_epsilon_Avg">>, <<"stats5", "">> >>,  \* 1201
    << <<"stats5_soil", "soil_5TM_ID8_T_Avg">>, <<"stats5", "">> >>,  \* 1202
    << <<"stats5_soil", "soil_5TM_ID8_VWC_Avg">>, <<"stats5", "">> >>,  \* 1203
    << <<"stats5_soil", "soil_5TM_ID9_epsilon_Avg">>, <<"stats5", "">> >>,  \* 1204
    << <<"stats5_soil", "soil_5TM_ID9_T_Avg">>, <<"stats5", "">> >>,  \* 1205
    << <<"stats5_soil", "soil_5TM_ID9_VWC_Avg">>, <<"stats5", "">> >>,  \* 1206
    << <<"stats5_soil", "soil_hfp1_heat_flux_Avg">>, <<"stats5_hfp", "">> >>,  \* 1207
    << <<"stats5_soil", "soil_hfp1_sensitivity">>, <<"stats5_hfp", "">> >>,  \* 1208
    << <<"stats5_soil", "soil_hfp2_heat_flux_Avg">>, <<"stats5_hfp", "">> >>,  \* 1209
    << <<"stats5_soil", "soil_hfp2_sensitivity">>, <<"stats5_hfp", "">> >>,  \* 1210
    << <<"tsdata_n2o_co", "TIMESTAMP">>, <<None, None>> >>,  \* 1216
    << <<"tsdata_n2o_co", "RECORD">>, <<None, None>> >>,  \* 1217
    << <<"tsdata_n2o_co", "lgr_n2o">>, <<"tsdata_extra", "lgr_n2o">> >>,  \* 1218
    << <<"tsdata_n2o_co", "lgr_co">>, <<"tsdata_extra", "lgr_co">> >>,  \* 1219
    << <<"stats30_n2o_co", "TIMESTAMP">>, <<"", "">> >>,  \* 1221
    << <<"stats30_n2o_co", "RECORD">>, <<"", "">> >>,  \* 1222
    << <<"stats30_n2o_co", "lgr_n2o_Avg">>, <<"", "">> >>,  \* 1223
    << <<"stats30_n2o_co", "lgr_n2o_Std">>, <<"", "">> >>,  \* 1224
    << <<"stats30_n2o_co", "lgr_co_Avg">>, <<"", "">> >>,  \* 1225
    << <<"stats30_n2o_co", "lgr_co_Std">>, <<"", "">> >>,  \* 1226
    << <<"stats30_n2o_co", "lgr_uptime">>, <<"", "lgr_n2o_co_uptime">> >>,  \* 1227
    << <<"stats30_n2o_co", "cov_n2o_Uz">>, <<None, None>> >>,  \* 1228
    << <<"stats30_n2o_co", "cov_co_Uz">>, <<None, None>> >>,  \* 1229
    << <<"stats30_n2o_co", "lgr_n2o_co_uptime">>, <<"", "">> >>,  \* 1230
    << <<"stats5_n2o_co", "TIMESTAMP">>, <<"", "">> >>,  \* 1232
    << <<"stats5_n2o_co", "RECORD">>, <<"", "">> >>,  \* 1233
    << <<"stats5_n2o_co", "lgr_n2o_Avg">>, <<"", "">> >>,  \* 1234
    << <<"stats5_n2o_co", "lgr_n2o_Std">>, <<"", "">> >>,  \* 1235
    << <<"stats5_n2o_co", "lgr_co_Avg">>, <<"", "">> >>,  \* 1236
    << <<"stats5_n2o_co", "lgr_co_Std">>, <<"", "">> >>,  \* 1237
    << <<"stats5_n2o_co", "lgr_uptime">>, <<"", "lgr_n2o_co_uptime">> >>,  \* 1238
    << <<"stats5_n2o_co", "cov_n2o_Uz">>, <<None, None>> >>,  \* 1239
    << <<"stats5_n2o_co", "cov_co_Uz">>, <<None, None>> >>,  \* 1240
    << <<"stats5_n2o_co", "lgr_n2o_co_uptime">>, <<"", "">> >>,  \* 1241
    << <<"stats30_extra", "TIMESTAMP">>, <<"stats30_n2o_co", "">> >>,  \* 1253
    << <<"stats30_extra", "RECORD">>, <<"stats30_n2o_co", "">> >>,  \* 1254
    << <<"stats30_extra", "lgr_n2o_Avg">>, <<"stats30_n2o_co", "">> >>,  \* 1255
    << <<"stats30_extra", "lgr_n2o_Std">>, <<"stats30_n2o_co", "">> >>,  \* 1256
    << <<"stats30_extra", "lgr_co_Avg">>, <<"stats30_n2o_co", "">> >>,  \* 1257
    << <<"stats30_extra", "lgr_co_Std">>, <<"stats30_n2o_co", "">> >>,  \* 1258
    << <<"stats30_extra", "lgr_uptime">>, <<"stats30_n2o_co", "">> >>,  \* 1259
    << <<"stats30_extra", "cov_n2o_Uz">>, <<"stats30_n2o_co", "">> >>,  \* 1260
    << <<"stats30_extra", "cov_co_Uz">>, <<"stats30_n2o_co", "">> >>,  \* 1261
    << <<"stats5_extra", "TIMESTAMP">>, <<"stats5_n2o_co", "">> >>,  \* 1263
    << <<"stats5_extra", "RECORD">>, <<"stats5_n2o_co", "">> >>,  \* 1264
    << <<"stats5_extra", "lgr_n2o_Avg">>, <<"stats5_n2o_co", "">> >>,  \* 1265
    << <<"stats5_extra", "lgr_n2o_Std">>, <<"stats5_n2o_co", "">> >>,  \* 1266
    << <<"stats5_extra", "lgr_co_Avg">>, <<"stats5_n2o_co", "">> >>,  \* 1267
    << <<"stats5_extra", "lgr_co_Std">>, <<"stats5_n2o_co", "">> >>,  \* 1268
    << <<"stats5_extra", "lgr_uptime">>, <<"stats5_n2o_co", "">> >>,  \* 1269
    << <<"stats5_extra", "cov_n2o_Uz">>, <<"stats5_n2o_co", "">> >>,  \* 1270
    << <<"stats5_extra", "cov_co_Uz">>, <<"stats5_n2o_co", "">> >>,  \* 1271
    << <<"CFNT_tsdata", "TIMESTAMP">>, <<"tsdata", "">> >>,  \* 1276
    << <<"CFNT_tsdata", "RECORD">>, <<"tsdata", "">> >>,  \* 1277
    << <<"CFNT_tsdata", "Ux">>, <<"tsdata", "">> >>,  \* 1278
    << <<"CFNT_tsdata", "Uy">>, <<"tsdata", "">> >>,  \* 1279
    << <<"CFNT_tsdata", "Uz">>, <<"tsdata", "">> >>,  \* 1280
    << <<"CFNT_tsdata", "Ts">>, <<"tsdata", "">> >>,  \* 1281
    << <<"CFNT_tsdata", "diag_sonic">>, <<"tsdata", "">> >>,  \* 1282
    << <<"CFNT_tsdata", "CO2">>, <<"tsdata", "">> >>,  \* 1283
    << <<"CFNT_tsdata", "H2O">>, <<"tsdata", "">> >>,  \* 1284
    << <<"CFNT_tsdata", "diag_irga">>, <<"tsdata", "">> >>,  \* 1285
    << <<"CFNT_tsdata", "amb_tmpr">>, <<"tsdata", "">> >>,  \* 1286
    << <<"CFNT_tsdata", "amb_press">>, <<"tsdata", "">> >>,  \* 1287
    << <<"CFNT_tsdata", "CO2_signal">>, <<"tsdata", "">> >>,  \* 1288
    << <<"CFNT_tsdata", "H2O_signal">>, <<"tsdata", "">> >>,  \* 1289
    << <<"CFNT_stats30", "TIMESTAMP">>, <<"stats30", "">> >>,  \* 1291
    << <<"CFNT_stats30", "RECORD">>, <<"stats30", "">> >>,  \* 1292
    << <<"CFNT_stats30", "L">>, <<"stats30", "">> >>,  \* 1293
    << <<"CFNT_stats30", "u_star">>, <<"stats30", "">> >>,  \* 1294
    << <<"CFNT_stats30", "tau">>, <<"stats30", "">> >>,  \* 1295
    << <<"CFNT_stats30", "Fc_wpl">>, <<"stats30", "">> >>,  \* 1296
    << <<"CFNT_stats30", "LE_wpl">>, <<"stats30", "">> >>,  \* 1297
    << <<"CFNT_stats30", "Hc">>, <<"stats30", "">> >>,  \* 1298
    << <<"CFNT_stats30", "Ts_Avg">>, <<"stats30", "">> >>,  \* 1299
    << <<"CFNT_stats30", "Ts_Std">>, <<"stats30", "">> >>,  \* 1300
    << <<"CFNT_stats30", "Tc_Avg">>, <<"stats30", "">> >>,  \* 1301
    << <<"CFNT_stats30", "Tc_Std">>, <<None, None>> >>,  \* 1302
    << <<"CFNT_stats30", "Uz_Std">>, <<"stats30", "">> >>,  \* 1303
    << <<"CFNT_stats30", "wnd_spd">>, <<"stats30", "">> >>,  \* 1304
    << <<"CFNT_stats30", "rslt_wnd_spd">>, <<"stats30", "">> >>,  \* 1305
    << <<"CFNT_stats30", "std_wnd_dir">>, <<"stats30", "">> >>,  \* 1306
    << <<"CFNT_stats30", "wnd_dir_compass">>, <<"stats30", "rslt_wnd_dir">> >>,  \* 1307
    << <<"CFNT_stats30", "sonic_samples_Tot">>, <<None, None>> >>,  \* 1308
    << <<"CFNT_stats30", "sonic_uptime">>, <<"stats30", "">> >>,  \* 1309
    << <<"CFNT_stats30", "CO2_ppm_Avg">>, <<"stats30", "">> >>,  \* 1310
    << <<"CFNT_stats30", "CO2_ppm_Std">>, <<None, None>> >>,  \* 1311
    << <<"CFNT_stats30", "CO2_mg_m3_Avg">>, <<"stats30", "">> >>,  \* 1312
    << <<"CFNT_stats30", "CO2_mg_m3_Std">>, <<"stats30", "">> >>,  \* 1313
    << <<"CFNT_stats30", "CO2_signal_Avg">>, <<"stats30", "">> >>,  \* 1314
    << <<"CFNT_stats30", "H2O_g_kg_Avg">>, <<"stats30", "">> >>,  \* 1315
    << <<"CFNT_stats30", "H2O_g_kg_Std">>, <<None, None>> >>,  \* 1316
    << <<"CFNT_stats30", "H2O_g_m3_Avg">>, <<"stats30", "">> >>,  \* 1317
    << <<"CFNT_stats30", "H2O_g_m3_Std">>, <<"stats30", "">> >>,  \* 1318
    << <<"CFNT_stats30", "H2O_signal_Avg">>, <<"stats30", "">> >>,  \* 1319
    << <<"CFNT_stats30", "amb_tmpr_Avg">>, <<"stats30", "">> >>,  \* 1320
    << <<"CFNT_stats30", "amb_press_Avg">>, <<"stats30", "">> >>,  \* 1321
    << <<"CFNT_stats30", "irga_samples_Tot">>, <<None, None>> >>,  \* 1322
    << <<"CFNT_stats30", "irga_uptime">>, <<"stats30", "">> >>,  \* 1323
    << <<"CFNT_stats30", "T_hmp_Avg">>, <<"stats30", "">> >>,  \* 1324
    << <<"CFNT_stats30", "RH_hmp_Avg">>, <<"stats30", "">> >>,  \* 1325
    << <<"CFNT_stats30", "e_hmp_Avg">>, <<"stats30", "">> >>,  \* 1326
    << <<"CFNT_stats30", "e_sat_hmp_Avg">>, <<"stats30", "">> >>,  \* 1327
    << <<"CFNT_stats30", "hmp_uptime">>, <<None, None>> >>,  \* 1328
    << <<"CFNT_stats30", "Rn_Avg">>, <<"stats30", "">> >>,  \* 1329
    << <<"CFNT_stats30", "Rn_meas_Avg">>, <<"stats30", "">> >>,  \* 1330
    << <<"CFNT_stats30", "PAR_totflx_Tot">>, <<"stats30", "">> >>,  \* 1331
    << <<"CFNT_stats30", "PAR_flxdens_Avg">>, <<"stats30", "">> >>,  \* 1332
    << <<"CFNT_stats30", "Met1_wnd_spd">>, <<"stats30", "">> >>,  \* 1333
    << <<"CFNT_stats30", "Met1_rslt_wnd_spd">>, <<"stats30", "">> >>,  \* 1334
    << <<"CFNT_stats30", "Met1_wnd_dir">>, <<"stats30", "">> >>,  \* 1335
    << <<"CFNT_stats30", "Met1_std_wnd_dir">>, <<"stats30", "">> >>,  \* 1336
    << <<"CFNT_stats30", "Met1_uptime">>, <<None, None>> >>,  \* 1337
    << <<"CFNT_stats30", "Rain_mm_Tot">>, <<"stats30", "">> >>,  \* 1338
    << <<"CFNT_stats30", "panel_tmpr_Avg">>, <<"stats30", "">> >>,  \* 1339
    << <<"CFNT_stats30", "batt_volt_Avg">>, <<"stats30", "">> >>,  \* 1340
    << <<"CFNT_stats5", "TIMESTAMP">>, <<"stats5", "">> >>,  \* 1342
    << <<"CFNT_stats5", "RECORD">>, <<"stats5", "">> >>,  \* 1343
    << <<"CFNT_stats5", "L">>, <<"stats5", "">> >>,  \* 1344
    << <<"CFNT_stats5", "u_star">>, <<"stats5", "">> >>,  \* 1345
    << <<"CFNT_stats5", "tau">>, <<"stats5", "">> >>,  \* 1346
    << <<"CFNT_stats5", "Fc_wpl">>, <<"stats5", "">> >>,  \* 1347
    << <<"CFNT_stats5", "LE_wpl">>, <<"stats5", "">> >>,  \* 1348
    << <<"CFNT_stats5", "Hc">>, <<"stats5", "">> >>,  \* 1349
    << <<"CFNT_stats5", "Ts_Avg">>, <<"stats5", "">> >>,  \* 1350
    << <<"CFNT_stats5", "Ts_Std">>, <<"stats5", "">> >>,  \* 1351
    << <<"CFNT_stats5", "Tc_Avg">>, <<"stats5", "">> >>,  \* 1352
    << <<"CFNT_stats5", "Tc_Std">>, <<None, None>> >>,  \* 1353
    << <<"CFNT_stats5", "Uz_Std">>, <<"stats5", "">> >>,  \* 1354
    << <<"CFNT_stats5", "wnd_spd">>, <<"stats5", "">> >>,  \* 1355
    << <<"CFNT_stats5", "rslt_wnd_spd">>, <<"stats5", "">> >>,  \* 1356
    << <<"CFNT_stats5", "std_wnd_dir">>, <<"stats5", "">> >>,  \* 1357
    << <<"CFNT_stats5", "wnd_dir_compass">>, <<"stats5", "rslt_wnd_spd">> >>,  \* 1358
    << <<"CFNT_stats5", "sonic_samples_Tot">>, <<None, None>> >>,  \* 1359
    << <<"CFNT_stats5", "sonic_uptime">>, <<"stats5", "">> >>,  \* 1360
    << <<"CFNT_stats5", "CO2_ppm_Avg">>, <<"stats5", "">> >>,  \* 1361
    << <<"CFNT_stats5", "CO2_ppm_Std">>, <<None, None>> >>,  \* 1362
    << <<"CFNT_stats5", "CO2_mg_m3_Avg">>, <<"stats5", "">> >>,  \* 1363
    << <<"CFNT_stats5", "CO2_mg_m3_Std">>, <<"stats5", "">> >>,  \* 1364
    << <<"CFNT_stats5", "CO2_signal_Avg">>, <<"stats5", "">> >>,  \* 1365
    << <<"CFNT_stats5", "H2O_g_kg_Avg">>, <<"stats5", "">> >>,  \* 1366
    << <<"CFNT_stats5", "H2O_g_kg_Std">>, <<None, None>> >>,  \* 1367
    << <<"CFNT_stats5", "H2O_g_m3_Avg">>, <<"stats5", "">> >>,  \* 1368
    << <<"CFNT_stats5", "H2O_g_m3_Std">>, <<"stats5", "">> >>,  \* 1369
    << <<"CFNT_stats5", "H2O_signal_Avg">>, <<"stats5", "">> >>,  \* 1370
    << <<"CFNT_stats5", "amb_tmpr_Avg">>, <<"stats5", "">> >>,  \* 1371
    << <<"CFNT_stats5", "amb_press_Avg">>, <<"stats5", "">> >>,  \* 1372
    << <<"CFNT_stats5", "irga_samples_Tot">>, <<None, None>> >>,  \* 1373
    << <<"CFNT_stats5", "irga_uptime">>, <<"stats5", "">> >>,  \* 1374
    << <<"CFNT_stats5", "T_hmp_Avg">>, <<"stats5", "">> >>,  \* 1375
    << <<"CFNT_stats5", "RH_hmp_Avg">>, <<"stats5", "">> >>,  \* 1376
    << <<"CFNT_stats5", "e_hmp_Avg">>, <<"stats5", "">> >>,  \* 1377
    << <<"CFNT_stats5", "e_sat_hmp_Avg">>, <<"stats5", "">> >>,  \* 1378
    << <<"CFNT_stats5", "hmp_uptime">>, <<None, None>> >>,  \* 1379
    << <<"CFNT_stats5", "Rn_Avg">>, <<"stats5", "">> >>,  \* 1380
    << <<"CFNT_stats5", "Rn_meas_Avg">>, <<"stats5", "">> >>,  \* 1381
    << <<"CFNT_stats5", "PAR_totflx_Tot">>, <<"stats5", "">> >>,  \* 1382
    << <<"CFNT_stats5", "PAR_flxdens_Avg">>, <<"stats5", "">> >>,  \* 1383
    << <<"CFNT_stats5", "Met1_wnd_spd">>, <<"stats5", "">> >>,  \* 1384
    << <<"CFNT_stats5", "Met1_rslt_wnd_spd">>, <<"stats5", "">> >>,  \* 1385
    << <<"CFNT_stats5", "Met1_wnd_dir">>, <<"stats5", "">> >>,  \* 1386
    << <<"CFNT_stats5", "Met1_std_wnd_dir">>, <<"stats5", "">> >>,  \* 1387
    << <<"CFNT_stats5", "Met1_uptime">>, <<None, None>> >>,  \* 1388
    << <<"CFNT_stats5", "Rain_mm_Tot">>, <<"stats5", "">> >>,  \* 1389
    << <<"CFNT_stats5", "panel_tmpr_Avg">>, <<"stats5", "">> >>,  \* 1390
    << <<"CFNT_stats5", "batt_volt_Avg">>, <<"stats5", "">> >>,  \* 1391
    << <<"CFNT_site_daily", "TIMESTAMP">>, <<"site_daily", "">> >>,  \* 1393
    << <<"CFNT_site_daily", "RECORD">>, <<"site_daily", "">> >>,  \* 1394
    << <<"CFNT_site_daily", "sonic_azimuth">>, <<"site_daily", "">> >>,  \* 1395
    << <<"CFNT_site_daily", "latitude_a_Avg">>, <<"site_daily", "">> >>,  \* 1396
    << <<"CFNT_site_daily", "latitude_b_Avg">>, <<"site_daily", "">> >>,  \* 1397
    << <<"CFNT_site_daily", "longitude_a_Avg">>, <<"site_daily", "">> >>,  \* 1398
    << <<"CFNT_site_daily", "longitude_b_Avg">>, <<"site_daily", "">> >>,  \* 1399
    << <<"CFNT_site_daily", "latitude_a_Std">>, <<None, None>> >>,  \* 1400
    << <<"CFNT_site_daily", "latitude_b_Std">>, <<None, None>> >>,  \* 1401
    << <<"CFNT_site_daily", "longitude_a_Std">>, <<None, None>> >>,  \* 1402
    << <<"CFNT_site_daily", "longitude_b_Std">>, <<None, None>> >>,  \* 1403
    << <<"CFNT_site_daily", "magnetic_variation_Avg">>, <<"site_daily", "">> >>,  \* 1404
    << <<"CFNT_site_daily", "magnetic_variation_Std">>, <<None, None>> >>,  \* 1405
    << <<"CFNT_site_daily", "nmbr_satellites_Avg">>, <<"site_daily", "">> >>,  \* 1406
    << <<"CFNT_site_daily", "altitude_Avg">>, <<"site_daily", "">> >>,  \* 1407
    << <<"CFNT_site_daily", "altitude_Std">>, <<None, None>> >>,  \* 1408
    << <<"CFNT_site_daily", "gps_ready_Min">>, <<"site_daily", "">> >>,  \* 1409
    << <<"CFNT_site_daily", "max_clock_change">>, <<"site_daily", "">> >>,  \* 1410
    << <<"CFNT_site_daily", "nmbr_clock_change">>, <<"site_daily", "">> >>,  \* 1411
    << <<"CFNT_met_5min", "TIMESTAMP">>, <<"CFNT_stats5", "">> >>,  \* 1416
    << <<"CFNT_met_5min", "RECORD">>, <<"CFNT_stats5", "">> >>,  \* 1417
    << <<"CFNT_met_5min", "L">>, <<"CFNT_stats5", "">> >>,  \* 1418
    << <<"CFNT_met_5min", "Hs">>, <<None, None>> >>,  \* 1419
    << <<"CFNT_met_5min", "u_star">>, <<"CFNT_stats5", "">> >>,  \* 1420
    << <<"CFNT_met_5min", "Ts_stdev">>, <<"CFNT_stats5", "Ts_Std">> >>,  \* 1421
    << <<"CFNT_met_5min", "Uz_stdev">>, <<"CFNT_stats5", "Uz_Std">> >>,  \* 1422
    << <<"CFNT_met_5min", "wnd_spd">>, <<"CFNT_stats5", "">> >>,  \* 1423
    << <<"CFNT_met_5min", "rslt_wnd_spd">>, <<"CFNT_stats5", "">> >>,  \* 1424
    << <<"CFNT_met_5min", "std_wnd_dir">>, <<"CFNT_stats5", "">> >>,  \* 1425
    << <<"CFNT_met_5min", "wnd_dir_compass">>, <<"CFNT_stats5", "">> >>,  \* 1426
    << <<"CFNT_met_5min", "Ts_Avg">>, <<"CFNT_stats5", "">> >>,  \* 1427
    << <<"CFNT_met_5min", "sonic_samples_Tot">>, <<"CFNT_stats5", "">> >>,  \* 1428
    << <<"CFNT_met_5min", "Fc_wpl">>, <<"CFNT_stats5", "">> >>,  \* 1429
    << <<"CFNT_met_5min", "LE_wpl">>, <<"CFNT_stats5", "">> >>,  \* 1430
    << <<"CFNT_met_5min", "Hc">>, <<"CFNT_stats5", "">> >>,  \* 1431
    << <<"CFNT_met_5min", "CO2_stdev">>, <<"CFNT_stats5", "CO2_mg_m3_Std">> >>,  \* 1432
    << <<"CFNT_met_5min", "H2O_stdev">>, <<"CFNT_stats5", "H2O_g_m3_Std">> >>,  \* 1433
    << <<"CFNT_met_5min", "Tc_stdev">>, <<"CFNT_stats5", "Tc_Std">> >>,  \* 1434
    << <<"CFNT_met_5min", "CO2_mean">>, <<"CFNT_stats5", "CO2_mg_m3_Avg">> >>,  \* 1435
    << <<"CFNT_met_5min", "H2O_mean">>, <<"CFNT_stats5", "H2O_g_m3_Avg">> >>,  \* 1436
    << <<"CFNT_met_5min", "amb_press_mean">>, <<"CFNT_stats5", "amb_press_Avg">> >>,  \* 1437
    << <<"CFNT_met_5min", "Tc_mean">>, <<"CFNT_stats5", "Tc_Avg">> >>,  \* 1438
    << <<"CFNT_met_5min", "CO2_sig_strgth_mean">>, <<"CFNT_stats5", "CO2_signal_Avg">> >>,  \* 1439
    << <<"CFNT_met_5min", "H2O_sig_strgth_mean">>, <<"CFNT_stats5", "H2O_signal_Avg">> >>,  \* 1440
    << <<"CFNT_met_5min", "T_hmp_mean">>, <<"CFNT_stats5", "T_hmp_Avg">> >>,  \* 1441
    << <<"CFNT_met_5min", "RH_hmp_mean">>, <<"CFNT_stats5", "RH_hmp_Avg">> >>,  \* 1442
    << <<"CFNT_met_5min", "Rn_Avg">>, <<"CFNT_stats5", "">> >>,  \* 1443
    << <<"CFNT_met_5min", "Rn_meas_Avg">>, <<"CFNT_stats5", "">> >>,  \* 1444
    << <<"CFNT_met_5min", "PAR_totflx_Tot">>, <<"CFNT_stats5", "">> >>,  \* 1445
    << <<"CFNT_met_5min", "PAR_flxdens_Avg">>, <<"CFNT_stats5", "">> >>,  \* 1446
    << <<"CFNT_met_5min", "034b_ws2">>, <<"CFNT_stats5", "Met1_wnd_spd">> >>,  \* 1447
    << <<"CFNT_met_5min", "034b_wd2">>, <<None, None>> >>,  \* 1448
    << <<"CFNT_met_5min", "034b_stdwd2">>, <<None, None>> >>,  \* 1449
    << <<"CFNT_met_5min", "Rain_mm_Tot">>, <<"CFNT_stats5", "">> >>,  \* 1450
    << <<"CFNT_met_5min", "latitude_a">>, <<None, None>> >>,  \* 1452
    << <<"CFNT_met_5min", "latitude_b">>, <<None, None>> >>,  \* 1453
    << <<"CFNT_met_5min", "longitude_a">>, <<None, None>> >>,  \* 1454
    << <<"CFNT_met_5min", "longitude_b">>, <<None, None>> >>,  \* 1455
    << <<"CFNT_met_5min", "magnetic_variation">>, <<None, None>> >>,  \* 1456
    << <<"CFNT_met_5min", "altitude">>, <<None, None>> >>,  \* 1457
    << <<"CFNT_met_5min", "max_clock_change">>, <<None, None>> >>,  \* 1458
    << <<"CFNT_met_5min", "nmbr_clock_change">>, <<None, None>> >>,  \* 1459
    << <<"CFNT_met_5min", "panel_tmpr_Avg">>, <<"CFNT_stats5", "">> >>,  \* 1460
    << <<"CFNT_met_5min", "batt_volt_Avg">>, <<"CFNT_stats5", "">> >>,  \* 1461
    << <<"extra_gas", "TIMESTAMP">>, <<None, None>> >>,  \* 1466
    << <<"extra_gas", "RECORD">>, <<None, None>> >>,  \* 1467
    << <<"extra_gas", "n2o_Avg">>, <<None, None>> >>,  \* 1468
    << <<"extra_gas", "c_monoxide_Avg">>, <<None, None>> >>,  \* 1469
    << <<"extra_gas", "ch4_Avg">>, <<None, None>> >>,  \* 1470
    << <<"extra_gas", "co2_picarro_Avg">>, <<None, None>> >>,  \* 1471
    << <<"extra_gas", "co2_mix_ratio_Avg">>, <<None, None>> >>,  \* 1472
    << <<"extra_gas", "h2o_mix_ratio_Avg">>, <<None, None>> >>,  \* 1473
    << <<"extra_gas", "034b_ws">>, <<None, None>> >>,  \* 1474
    << <<"extra_gas", "034b_wd">>, <<None, None>> >>,  \* 1475
    << <<"extra_gas", "034b_stdwd">>, <<None, None>> >>,  \* 1476
    << <<"ts_data", "TIMESTAMP">>, <<"CFNT_tsdata", "">> >>,  \* 1481
    << <<"ts_data", "RECORD">>, <<"CFNT_tsdata", "">> >>,  \* 1482
    << <<"ts_data", "Ux">>, <<"CFNT_tsdata", "">> >>,  \* 1483
    << <<"ts_data", "Uy">>, <<"CFNT_tsdata", "">> >>,  \* 1484
    << <<"ts_data", "Uz">>, <<"CFNT_tsdata", "">> >>,  \* 1485
    << <<"ts_data", "Ts">>, <<"CFNT_tsdata", "">> >>,  \* 1486
    << <<"ts_data", "diag_sonic">>, <<"CFNT_tsdata", "">> >>,  \* 1487
    << <<"ts_data", "atiUx">>, <<None, None>> >>,  \* 1488
    << <<"ts_data", "atiUy">>, <<None, None>> >>,  \* 1489
    << <<"ts_data", "atiUz">>, <<None, None>> >>,  \* 1490
    << <<"ts_data", "atiTs">>, <<None, None>> >>,  \* 1491
    << <<"ts_data", "CO2_molar">>, <<"", "co2_molar_density">> >>,  \* 1492
    << <<"ts_data", "H2O_molar">>, <<"", "h2o_molar_density">> >>,  \* 1493
    << <<"ts_data", "co2_molar_density">>, <<None, None>> >>,  \* 1494
    << <<"ts_data", "h2o_molar_density">>, <<None, None>> >>,  \* 1495
    << <<"ts_data", "co2_mix_ratio">>, <<"", "co2_molar_density">> >>,  \* 1496
    << <<"ts_data", "h2o_mix_ratio">>, <<"", "h2o_molar_density">> >>,  \* 1497
    << <<"ts_data", "n2o">>, <<"tsdata_extra", "lgr_n2o">> >>,  \* 1498
    << <<"ts_data", "c_monoxide">>, <<"tsdata_extra", "lgr_co">> >>,  \* 1499
    << <<"ts_data", "ch4">>, <<"tsdata_extra", "pic_ch4">> >>,  \* 1500
    << <<"ts_data", "co2_picarro">>, <<"tsdata_extra", "pic_co2">> >>,  \* 1501
    << <<"ts_data", "CO2">>, <<"CFNT_tsdata", "">> >>,  \* 1502
    << <<"ts_data", "H2O">>, <<"CFNT_tsdata", "">> >>,  \* 1503
    << <<"ts_data", "diag_irga">>, <<"CFNT_tsdata", "">> >>,  \* 1504
    << <<"ts_data", "amb_tmpr">>, <<"CFNT_tsdata", "">> >>,  \* 1505
    << <<"ts_data", "amb_press">>, <<"CFNT_tsdata", "">> >>,  \* 1506
    << <<"ts_data", "CO2_sig_strgth">>, <<"CFNT_tsdata", "CO2_signal">> >>,  \* 1507
    << <<"ts_data", "H2O_sig_strgth">>, <<"CFNT_tsdata", "H2O_signal">> >>,  \* 1508
    << <<"flux", "TIMESTAMP">>, <<"CFNT_stats30", "">> >>,  \* 1510
    << <<"flux", "RECORD">>, <<"CFNT_stats30", "">> >>,  \* 1511
    << <<"flux", "l">>, <<"", "L">> >>,  \* 1512
    << <<"flux", "L">>, <<"CFNT_stats30", "">> >>,  \* 1513
    << <<"flux", "Hs">>, <<None, None>> >>,  \* 1514
    << <<"flux", "tau">>, <<"CFNT_stats30", "">> >>,  \* 1515
    << <<"flux", "u_star">>, <<"CFNT_stats30", "">> >>,  \* 1516
    << <<"flux", "Ts_stdev">>, <<"CFNT_stats30", "Ts_Std">> >>,  \* 1517
    << <<"flux", "Ts_Ux_cov">>, <<None, None>> >>,  \* 1518
    << <<"flux", "Ts_Uy_cov">>, <<None, None>> >>,  \* 1519
    << <<"flux", "Ts_Uz_cov">>, <<None, None>> >>,  \* 1520
    << <<"flux", "Ux_stdev">>, <<None, None>> >>,  \* 1521
    << <<"flux", "Ux_Uy_cov">>, <<None, None>> >>,  \* 1522
    << <<"flux", "Ux_Uz_cov">>, <<None, None>> >>,  \* 1523
    << <<"flux", "Uy_stdev">>, <<None, None>> >>,  \* 1524
    << <<"flux", "Uy_Uz_cov">>, <<None, None>> >>,  \* 1525
    << <<"flux", "Uz_stdev">>, <<"CFNT_stats30", "Uz_Std">> >>,  \* 1526
    << <<"flux", "wnd_spd">>, <<"CFNT_stats30", "">> >>,  \* 1527
    << <<"flux", "rslt_wnd_spd">>, <<"CFNT_stats30", "">> >>,  \* 1528
    << <<"flux", "wnd_dir_sonic">>, <<None, None>> >>,  \* 1529
    << <<"flux", "std_wnd_dir">>, <<"CFNT_stats30", "">> >>,  \* 1530
    << <<"flux", "wnd_dir_compass">>, <<"CFNT_stats30", "">> >>,  \* 1531
    << <<"flux", "Ux_Avg">>, <<None, None>> >>,  \* 1532
    << <<"flux", "Uy_Avg">>, <<None, None>> >>,  \* 1533
    << <<"flux", "Uz_Avg">>, <<None, None>> >>,  \* 1534
    << <<"flux", "Ts_Avg">>, <<"CFNT_stats30", "">> >>,  \* 1535
    << <<"flux", "sonic_azimuth">>, <<None, None>> >>,  \* 1536
    << <<"flux", "sonic_samples_Tot">>, <<None, None>> >>,  \* 1537
    << <<"flux", "no_sonic_head_Tot">>, <<None, None>> >>,  \* 1538
    << <<"flux", "no_new_sonic_data_Tot">>, <<None, None>> >>,  \* 1539
    << <<"flux", "amp_l_f_Tot">>, <<None, None>> >>,  \* 1540
    << <<"flux", "amp_h_f_Tot">>, <<None, None>> >>,  \* 1541
    << <<"flux", "sig_lck_f_Tot">>, <<None, None>> >>,  \* 1542
    << <<"flux", "del_T_f_Tot">>, <<None, None>> >>,  \* 1543
    << <<"flux", "aq_sig_f_Tot">>, <<None, None>> >>,  \* 1544
    << <<"flux", "sonic_cal_err_f_Tot">>, <<None, None>> >>,  \* 1545
    << <<"flux", "Fc_wpl">>, <<"CFNT_stats30", "">> >>,  \* 1546
    << <<"flux", "LE_wpl">>, <<"CFNT_stats30", "">> >>,  \* 1547
    << <<"flux", "Hc">>, <<"CFNT_stats30", "">> >>,  \* 1548
    << <<"flux", "CO2_stdev">>, <<"CFNT_stats30", "CO2_mg_m3_Std">> >>,  \* 1549
    << <<"flux", "CO2_Ux_cov">>, <<None, None>> >>,  \* 1550
    << <<"flux", "CO2_Uy_cov">>, <<None, None>> >>,  \* 1551
    << <<"flux", "CO2_Uz_cov">>, <<None, None>> >>,  \* 1552
    << <<"flux", "H2O_stdev">>, <<"CFNT_stats30", "H2O_g_m3_Std">> >>,  \* 1553
    << <<"flux", "H2O_Ux_cov">>, <<None, None>> >>,  \* 1554
    << <<"flux", "H2O_Uy_cov">>, <<None, None>> >>,  \* 1555
    << <<"flux", "H2O_Uz_cov">>, <<None, None>> >>,  \* 1556
    << <<"flux", "Tc_stdev">>, <<"CFNT_stats30", "Tc_Std">> >>,  \* 1557
    << <<"flux", "Tc_Ux_cov">>, <<None, None>> >>,  \* 1558
    << <<"flux", "Tc_Uy_cov">>, <<None, None>> >>,  \* 1559
    << <<"flux", "Tc_Uz_cov">>, <<None, None>> >>,  \* 1560
    << <<"flux", "CO2_mean">>, <<"CFNT_stats30", "CO2_mg_m3_Avg">> >>,  \* 1561
    << <<"flux", "H2O_mean">>, <<"CFNT_stats30", "H2O_g_m3_Avg">> >>,  \* 1562
    << <<"flux", "amb_press_mean">>, <<"CFNT_stats30", "amb_press_Avg">> >>,  \* 1563
    << <<"flux", "Tc_mean">>, <<"CFNT_stats30", "Tc_Avg">> >>,  \* 1564
    << <<"flux", "rho_a_mean">>, <<None, None>> >>,  \* 1565
    << <<"flux", "Fc_irga">>, <<None, None>> >>,  \* 1566
    << <<"flux", "LE_irga">>, <<None, None>> >>,  \* 1567
    << <<"flux", "CO2_wpl_LE">>, <<None, None>> >>,  \* 1568
    << <<"flux", "CO2_wpl_H">>, <<None, None>> >>,  \* 1569
    << <<"flux", "H2O_wpl_LE">>, <<None, None>> >>,  \* 1570
    << <<"flux", "H2O_wpl_H">>, <<None, None>> >>,  \* 1571
    << <<"flux", "irga_samples_Tot">>, <<None, None>> >>,  \* 1572
    << <<"flux", "no_irga_head_Tot">>, <<None, None>> >>,  \* 1573
    << <<"flux", "no_new_irga_data_Tot">>, <<None, None>> >>,  \* 1574
    << <<"flux", "irga_bad_data_f_Tot">>, <<None, None>> >>,  \* 1575
    << <<"flux", "gen_sys_fault_f_Tot">>, <<None, None>> >>,  \* 1576
    << <<"flux", "sys_startup_f_Tot">>, <<None, None>> >>,  \* 1577
    << <<"flux", "motor_spd_f_Tot">>, <<None, None>> >>,  \* 1578
    << <<"flux", "tec_tmpr_f_Tot">>, <<None, None>> >>,  \* 1579
    << <<"flux", "src_pwr_f_Tot">>, <<None, None>> >>,  \* 1580
    << <<"flux", "src_tmpr_f_Tot">>, <<None, None>> >>,  \* 1581
    << <<"flux", "src_curr_f_Tot">>, <<None, None>> >>,  \* 1582
    << <<"flux", "irga_off_f_Tot">>, <<None, None>> >>,  \* 1583
    << <<"flux", "irga_sync_f_Tot">>, <<None, None>> >>,  \* 1584
    << <<"flux", "amb_tmpr_f_Tot">>, <<None, None>> >>,  \* 1585
    << <<"flux", "amb_press_f_Tot">>, <<None, None>> >>,  \* 1586
    << <<"flux", "CO2_I_f_Tot">>, <<None, None>> >>,  \* 1587
    << <<"flux", "CO2_Io_f_Tot">>, <<None, None>> >>,  \* 1588
    << <<"flux", "H2O_I_f_Tot">>, <<None, None>> >>,  \* 1589
    << <<"flux", "H2O_Io_f_Tot">>, <<None, None>> >>,  \* 1590
    << <<"flux", "CO2_Io_var_f_Tot">>, <<None, None>> >>,  \* 1591
    << <<"flux", "H2O_Io_var_f_Tot">>, <<None, None>> >>,  \* 1592
    << <<"flux", "CO2_sig_strgth_f_Tot">>, <<None, None>> >>,  \* 1593
    << <<"flux", "H2O_sig_strgth_f_Tot">>, <<None, None>> >>,  \* 1594
    << <<"flux", "CO2_sig_strgth_mean">>, <<"CFNT_stats30", "CO2_signal_Avg">> >>,  \* 1595
    << <<"flux", "H2O_sig_strgth_mean">>, <<"CFNT_stats30", "H2O_signal_Avg">> >>,  \* 1596
    << <<"flux", "T_hmp_mean">>, <<"CFNT_stats30", "T_hmp_Avg">> >>,  \* 1597
    << <<"flux", "e_hmp_mean">>, <<"CFNT_stats30", "e_hmp_Avg">> >>,  \* 1599
    << <<"flux", "e_sat_hmp_mean">>, <<"CFNT_stats30", "e_sat_hmp_Avg">> >>,  \* 1601
    << <<"flux", "H2O_hmp_mean">>, <<None, None>> >>,  \* 1602
    << <<"flux", "RH_hmp_mean">>, <<"CFNT_stats30", "RH_hmp_Avg">> >>,  \* 1603
    << <<"flux", "rho_a_mean_hmp">>, <<None, None>> >>,  \* 1604
    << <<"flux", "Rn_Avg">>, <<"CFNT_stats30", "">> >>,  \* 1605
    << <<"flux", "Rn_meas_Avg">>, <<"CFNT_stats30", "">> >>,  \* 1606
    << <<"flux", "par_totflx_Tot">>, <<"", "PAR_totflx_Tot">> >>,  \* 1607
    << <<"flux", "PAR_totflx_Tot">>, <<"CFNT_stats30", "">> >>,  \* 1608
    << <<"flux", "par_flxdens_Avg">>, <<"", "PAR_flxdens_Avg">> >>,  \* 1609
    << <<"flux", "PAR_flxdens_Avg">>, <<"CFNT_stats30", "">> >>,  \* 1610
    << <<"flux", "WS_ms_Avg">>, <<None, None>> >>,  \* 1611
    << <<"flux", "WS_ms_WVc(1)">>, <<"", "034b_ws">> >>,  \* 1612
    << <<"flux", "034b_ws">>, <<"CFNT_stats30", "Met1_wnd_spd">> >>,  \* 1613
    << <<"flux", "WS_ms_WVc(2)">>, <<"", "034b_wd">> >>,  \* 1614
    << <<"flux", "034b_wd">>, <<None, None>> >>,  \* 1615
    << <<"flux", "WS_ms_WVc(3)">>, <<"", "034b_stdwd">> >>,  \* 1616
    << <<"flux", "034b_stdwd">>, <<None, None>> >>,  \* 1617
    << <<"flux", "ati_azimuth">>, <<None, None>> >>,  \* 1618
    << <<"flux", "ati_ws">>, <<None, None>> >>,  \* 1619
    << <<"flux", "ati_wd">>, <<None, None>> >>,  \* 1620
    << <<"flux", "ati_stdwd">>, <<None, None>> >>,  \* 1621
    << <<"flux", "atiUavg">>, <<None, None>> >>,  \* 1622
    << <<"flux", "atiVavg">>, <<None, None>> >>,  \* 1623
    << <<"flux", "atiWavg">>, <<None, None>> >>,  \* 1624
    << <<"flux", "atitmpavg">>, <<None, None>> >>,  \* 1625
    << <<"flux", "Rain_mm_Tot">>, <<"CFNT_stats30", "">> >>,  \* 1626
    << <<"flux", "latitude_a">>, <<None, None>> >>,  \* 1628
    << <<"flux", "latitude_b">>, <<None, None>> >>,  \* 1629
    << <<"flux", "longitude_a">>, <<None, None>> >>,  \* 1630
    << <<"flux", "longitude_b">>, <<None, None>> >>,  \* 1631
    << <<"flux", "speed">>, <<None, None>> >>,  \* 1632
    << <<"flux", "course">>, <<None, None>> >>,  \* 1633
    << <<"flux", "magnetic_variation">>, <<None, None>> >>,  \* 1634
    << <<"flux", "fix_quality">>, <<None, None>> >>,  \* 1635
    << <<"flux", "nmbr_satellites">>, <<None, None>> >>,  \* 1636
    << <<"flux", "altitude">>, <<None, None>> >>,  \* 1637
    << <<"flux", "pps">>, <<None, None>> >>,  \* 1638
    << <<"flux", "dt_since_gprmc">>, <<None, None>> >>,  \* 1639
    << <<"flux", "gps_ready">>, <<None, None>> >>,  \* 1640
    << <<"flux", "max_clock_change">>, <<None, None>> >>,  \* 1641
    << <<"flux", "nmbr_clock_change">>, <<None, None>> >>,  \* 1642
    << <<"flux", "panel_tmpr_Avg">>, <<"CFNT_stats30", "">> >>,  \* 1643
    << <<"flux", "batt_volt_Avg">>, <<"CFNT_stats30", "">> >>,  \* 1644
    << <<"flux", "slowsequence_Tot">>, <<None, None>> >>   \* 1645
  >>

\* src/python/obj2core.py, lines 301-1068: the dict literal bound to col_alias, one item per
\* source line (the line number follows each item), as <<key, value>>.
obj2core_col_alias_items ==
  <<
    << <<"stats30_hfp", "TIMESTAMP">>, <<"", "">> >>,  \* 304
    << <<"stats30_hfp", "RECORD">>, <<"", "">> >>,  \* 305
    << <<"stats30_hfp", "soil_hfp1_heat_flux_Avg">>, <<"", "">> >>,  \* 306
    << <<"stats30_hfp", "soil_hfp1_sensitivity">>, <<"", "">> >>,  \* 307
    << <<"stats30_hfp", "soil_hfp2_heat_flux_Avg">>, <<"", "">> >>,  \* 308
    << <<"stats30_hfp", "soil_hfp2_sensitivity">>, <<"", "">> >>,  \* 309
    << <<"stats30_hfp", "hfp1_samples_Tot">>, <<"", "">> >>,  \* 310
    << <<"stats30_hfp", "hfp2_samples_Tot">>, <<"", "">> >>,  \* 311
    << <<"stats30_hfp", "tblcalls_Tot">>, <<"", "">> >>,  \* 312
    << <<"stats5_hfp", "TIMESTAMP">>, <<"", "">> >>,  \* 314
    << <<"stats5_hfp", "RECORD">>, <<"", "">> >>,  \* 315
    << <<"stats5_hfp", "soil_hfp1_heat_flux_Avg">>, <<"", "">> >>,  \* 316
    << <<"stats5_hfp", "soil_hfp1_sensitivity">>, <<"", "">> >>,  \* 317
    << <<"stats5_hfp", "soil_hfp2_heat_flux_Avg">>, <<"", "">> >>,  \* 318
    << <<"stats5_hfp", "soil_hfp2_sensitivity">>, <<"", "">> >>,  \* 319
    << <<"stats5_hfp", "hfp1_samples_Tot">>, <<"", "">> >>,  \* 320
    << <<"stats5_hfp", "hfp2_samples_Tot">>, <<"", "">> >>,  \* 321
    << <<"stats5_hfp", "tblcalls_Tot">>, <<"", "">> >>,  \* 322
    << <<"site_info", "TIMESTAMP">>, <<"", "">> >>,  \* 327
    << <<"site_info", "RECORD">>, <<"", "">> >>,  \* 328
    << <<"site_info", "UTC_offset">>, <<"", "">> >>,  \* 329
    << <<"site_info", "sonic_azimuth">>, <<"", "">> >>,  \* 330
    << <<"site_info", "NRLite2_sens">>, <<"", "">> >>,  \* 331
    << <<"site_info", "LI190SB_sens">>, <<"", "">> >>,  \* 332
    << <<"site_info", "HFP_1_sens">>, <<"", "">> >>,  \* 333
    << <<"site_info", "HFP_2_sens">>, <<"", "">> >>,  \* 334
    << <<"site_info", "CompileResults">>, <<"", "">> >>,  \* 335
    << <<"site_info", "CardStatus">>, <<"", "">> >>,  \* 336
    << <<"site_info", "RunSig">>, <<"", "">> >>,  \* 337
    << <<"site_info", "ProgSig">>, <<"", "">> >>,  \* 338
    << <<"site_info", "SENSOR_DEC_5TM">>, <<None, None>> >>,  \* 339
    << <<"site_info", "SENSOR_DEC_6RAD">>, <<"", "Dec_6rad_installed">> >>,  \* 340
    << <<"site_info", "Dec_6rad_installed">>, <<"", "">> >>,  \* 341
    << <<"site_info", "SENSOR_LGR_N2OCO">>, <<"", "LGR_n2o_co_installed">> >>,  \* 342
    << <<"site_info", "LGR_n2o_co_installed">>, <<"", "">> >>,  \* 343
    << <<"site_info", "SENSOR_PIC_CO2CH4">>, <<"", "Pic_co2_ch4_installed">> >>,  \* 344
    << <<"site_info", "Pic_co2_ch4_installed">>, <<"", "">> >>,  \* 345
    << <<"site_info", "SENSOR_HFP01SC">>, <<"", "hfp_installed">> >>,  \* 346
    << <<"site_info", "hfp_installed">>, <<"", "">> >>,  \* 347
    << <<"stats30_6rad", "TIMESTAMP">>, <<"", "">> >>,  \* 352
    << <<"stats30_6rad", "RECORD">>, <<"", "">> >>,  \* 353
    << <<"stats30_6rad", "dec_6rad_uplook_Avg(1)">>, <<"", "">> >>,  \* 354
    << <<"stats30_6rad", "dec_6rad_uplook_Avg(2)">>, <<"", "">> >>,  \* 355
    << <<"stats30_6rad", "dec_6rad_uplook_Avg(3)">>, <<"", "">> >>,  \* 356
    << <<"stats30_6rad", "dec_6rad_uplook_Avg(4)">>, <<"", "">> >>,  \* 357
    << <<"stats30_6rad", "dec_6rad_uplook_Avg(5)">>, <<"", "">> >>,  \* 358
    << <<"stats30_6rad", "dec_6rad_uplook_Avg(6)">>, <<"", "">> >>,  \* 359
    << <<"stats30_6rad", "dec_6rad_dnlook_Avg(1)">>, <<"", "">> >>,  \* 360
    << <<"stats30_6rad", "dec_6rad_dnlook_Avg(2)">>, <<"", "">> >>,  \* 361
    << <<"stats30_6rad", "dec_6rad_dnlook_Avg(3)">>, <<"", "">> >>,  \* 362
    << <<"stats30_6rad", "dec_6rad_dnlook_Avg(4)">>, <<"", "">> >>,  \* 363
    << <<"stats30_6rad", "dec_6rad_dnlook_Avg(5)">>, <<"", "">> >>,  \* 364
    << <<"stats30_6rad", "dec_6rad_dnlook_Avg(6)">>, <<"", "">> >>,  \* 365
    << <<"stats30_6rad", "tblcalls_Tot">>, <<"", "">> >>,  \* 366
    << <<"stats5_6rad", "TIMESTAMP">>, <<"", "">> >>,  \* 368
    << <<"stats5_6rad", "RECORD">>, <<"", "">> >>,  \* 369
    << <<"stats5_6rad", "dec_6rad_uplook_Avg(1)">>, <<"", "">> >>,  \* 370
    << <<"stats5_6rad", "dec_6rad_uplook_Avg(2)">>, <<"", "">> >>,  \* 371
    << <<"stats5_6rad", "dec_6rad_uplook_Avg(3)">>, <<"", "">> >>,  \* 372
    << <<"stats5_6rad", "dec_6rad_uplook_Avg(4)">>, <<"", "">> >>,  \* 373
    << <<"stats5_6rad", "dec_6rad_uplook_Avg(5)">>, <<"", "">> >>,  \* 374
    << <<"stats5_6rad", "dec_6rad_uplook_Avg(6)">>, <<"", "">> >>,  \* 375
    << <<"stats5_6rad", "dec_6rad_dnlook_Avg(1)">>, <<"", "">> >>,  \* 376
    << <<"stats5_6rad", "dec_6rad_dnlook_Avg(2)">>, <<"", "">> >>,  \* 377
    << <<"stats5_6rad", "dec_6rad_dnlook_Avg(3)">>, <<"", "">> >>,  \* 378
    << <<"stats5_6rad", "dec_6rad_dnlook_Avg(4)">>, <<"", "">> >>,  \* 379
    << <<"stats5_6rad", "dec_6rad_dnlook_Avg(5)">>, <<"", "">> >>,  \* 380
    << <<"stats5_6rad", "dec_6rad_dnlook_Avg(6)">>, <<"", "">> >>,  \* 381
    << <<"stats5_6rad", "tblcalls_Tot">>, <<"", "">> >>,  \* 382
    << <<"stats30_6rad", "dec_6rad_up_Avg(1)">>, <<"", "dec_6rad_uplook_Avg(1)">> >>,  \* 389
    << <<"stats30_6rad", "dec_6rad_up_Avg(2)">>, <<"", "dec_6rad_uplook_Avg(2)">> >>,  \* 390
    << <<"stats30_6rad", "dec_6rad_up_Avg(3)">>, <<"", "dec_6rad_uplook_Avg(3)">> >>,  \* 391
    << <<"stats30_6rad", "dec_6rad_up_Avg(4)">>, <<"", "dec_6rad_uplook_Avg(4)">> >>,  \* 392
    << <<"stats30_6rad", "dec_6rad_up_Avg(5)">>, <<"", "dec_6rad_uplook_Avg(5)">> >>,  \* 393
    << <<"stats30_6rad", "dec_6rad_up_Avg(6)">>, <<"", "dec_6rad_uplook_Avg(6)">> >>,  \* 394
    << <<"stats30_6rad", "dec_6rad_dn_Avg(1)">>, <<"", "dec_6rad_dnlook_Avg(1)">> >>,  \* 395
    << <<"stats30_6rad", "dec_6rad_dn_Avg(2)">>, <<"", "dec_6rad_dnlook_Avg(2)">> >>,  \* 396
    << <<"stats30_6rad", "dec_6rad_dn_Avg(3)">>, <<"", "dec_6rad_dnlook_Avg(3)">> >>,  \* 397
    << <<"stats30_6rad", "dec_6rad_dn_Avg(4)">>, <<"", "dec_6rad_dnlook_Avg(4)">> >>,  \* 398
    << <<"stats30_6rad", "dec_6rad_dn_Avg(5)">>, <<"", "dec_6rad_dnlook_Avg(5)">> >>,  \* 399
    << <<"stats30_6rad", "dec_6rad_dn_Avg(6)">>, <<"", "dec_6rad_dnlook_Avg(6)">> >>,  \* 400
    << <<"stats5_6rad", "dec_6rad_up_Avg(1)">>, <<"", "dec_6rad_uplook_Avg(1)">> >>,  \* 404
    << <<"stats5_6rad", "dec_6rad_up_Avg(2)">>, <<"", "dec_6rad_uplook_Avg(2)">> >>,  \* 405
    << <<"stats5_6rad", "dec_6rad_up_Avg(3)">>, <<"", "dec_6rad_uplook_Avg(3)">> >>,  \* 406
    << <<"stats5_6rad", "dec_6rad_up_Avg(4)">>, <<"", "dec_6rad_uplook_Avg(4)">> >>,  \* 407
    << <<"stats5_6rad", "dec_6rad_up_Avg(5)">>, <<"", "dec_6rad_uplook_Avg(5)">> >>,  \* 408
    << <<"stats5_6rad", "dec_6rad_up_Avg(6)">>, <<"", "dec_6rad_uplook_Avg(6)">> >>,  \* 409
    << <<"stats5_6rad", "dec_6rad_dn_Avg(1)">>, <<"", "dec_6rad_dnlook_Avg(1)">> >>,  \* 410
    << <<"stats5_6rad", "dec_6rad_dn_Avg(2)">>, <<"", "dec_6rad_dnlook_Avg(2)">> >>,  \* 411
    << <<"stats5_6rad", "dec_6rad_dn_Avg(3)">>, <<"", "dec_6rad_dnlook_Avg(3)">> >>,  \* 412
    << <<"stats5_6rad", "dec_6rad_dn_Avg(4)">>, <<"", "dec_6rad_dnlook_Avg(4)">> >>,  \* 413
    << <<"stats5_6rad", "dec_6rad_dn_Avg(5)">>, <<"", "dec_6rad_dnlook_Avg(5)">> >>,  \* 414
    << <<"stats5_6rad", "dec_6rad_dn_Avg(6)">>, <<"", "dec_6rad_dnlook_Avg(6)">> >>,  \* 415
    << <<"tsdata", "TIMESTAMP">>, <<"", "">> >>,  \* 420
    << <<"tsdata", "RECORD">>, <<"", "">> >>,  \* 421
    << <<"tsdata", "Ux">>, <<"", "">> >>,  \* 422
    << <<"tsdata", "Uy">>, <<"", "">> >>,  \* 423
    << <<"tsdata", "Uz">>, <<"", "">> >>,  \* 424
    << <<"tsdata", "Ts">>, <<"", "">> >>,  \* 425
    << <<"tsdata", "diag_sonic">>, <<"", "">> >>,  \* 426
    << <<"tsdata", "CO2">>, <<"", "">> >>,  \* 427
    << <<"tsdata", "H2O">>, <<"", "">> >>,  \* 428
    << <<"tsdata", "diag_irga">>, <<"", "">> >>,  \* 429
    << <<"tsdata", "amb_tmpr">>, <<"", "">> >>,  \* 430
    << <<"tsdata", "amb_press">>, <<"", "">> >>,  \* 431
    << <<"tsdata", "CO2_signal">>, <<"", "">> >>,  \* 432
    << <<"tsdata", "H2O_signal">>, <<"", "">> >>,  \* 433
    << <<"stats30", "TIMESTAMP">>, <<"", "">> >>,  \* 435
    << <<"stats30", "RECORD">>, <<"", "">> >>,  \* 436
    << <<"stats30", "L">>, <<"", "">> >>,  \* 437
    << <<"stats30", "u_star">>, <<"", "">> >>,  \* 438
    << <<"stats30", "tau">>, <<"", "">> >>,  \* 439
    << <<"stats30", "Fc_wpl">>, <<"", "">> >>,  \* 440
    << <<"stats30", "LE_wpl">>, <<"", "">> >>,  \* 441
    << <<"stats30", "Hc">>, <<"", "">> >>,  \* 442
    << <<"stats30", "Ts_Avg">>, <<"", "">> >>,  \* 443
    << <<"stats30", "Ts_Std">>, <<"", "">> >>,  \* 444
    << <<"stats30", "Tc_Avg">>, <<"", "">> >>,  \* 445
    << <<"stats30", "Uz_Std">>, <<"", "">> >>,  \* 446
    << <<"stats30", "wnd_spd">>, <<"", "">> >>,  \* 447
    << <<"stats30", "rslt_wnd_spd">>, <<"", "">> >>,  \* 448
    << <<"stats30", "rslt_wnd_dir">>, <<"", "">> >>,  \* 449
    << <<"stats30", "std_wnd_dir">>, <<"", "">> >>,  \* 450
    << <<"stats30", "sonic_uptime">>, <<"", "">> >>,  \* 451
    << <<"stats30", "CO2_ppm_Avg">>, <<"", "">> >>,  \* 452
    << <<"stats30", "CO2_mg_m3_Avg">>, <<"", "">> >>,  \* 453
    << <<"stats30", "CO2_mg_m3_Std">>, <<"", "">> >>,  \* 454
    << <<"stats30", "CO2_signal_Avg">>, <<"", "">> >>,  \* 455
    << <<"stats30", "H2O_g_kg_Avg">>, <<"", "">> >>,  \* 456
    << <<"stats30", "H2O_g_m3_Avg">>, <<"", "">> >>,  \* 457
    << <<"stats30", "H2O_g_m3_Std">>, <<"", "">> >>,  \* 458
    << <<"stats30", "H2O_signal_Avg">>, <<"", "">> >>,  \* 459
    << <<"stats30", "amb_tmpr_Avg">>, <<"", "">> >>,  \* 460
    << <<"stats30", "amb_press_Avg">>, <<"", "">> >>,  \* 461
    << <<"stats30", "irga_uptime">>, <<"", "">> >>,  \* 462
    << <<"stats30", "T_hmp_Avg">>, <<"", "">> >>,  \* 463
    << <<"stats30", "RH_hmp_Avg">>, <<"", "">> >>,  \* 464
    << <<"stats30", "e_hmp_Avg">>, <<"", "">> >>,  \* 465
    << <<"stats30", "e_sat_hmp_Avg">>, <<"", "">> >>,  \* 466
    << <<"stats30", "Rn_Avg">>, <<"", "">> >>,  \* 467
    << <<"stats30", "Rn_meas_Avg">>, <<"", "">> >>,  \* 468
    << <<"stats30", "PAR_totflx_Tot">>, <<"", "">> >>,  \* 469
    << <<"stats30", "PAR_flxdens_Avg">>, <<"", "">> >>,  \* 470
    << <<"stats30", "Met1_wnd_spd">>, <<"", "">> >>,  \* 471
    << <<"stats30", "Met1_rslt_wnd_spd">>, <<"", "">> >>,  \* 472
    << <<"stats30", "Met1_wnd_dir">>, <<"", "Met1_rslt_wnd_dir">> >>,  \* 473
    << <<"stats30", "Met1_rslt_wnd_dir">>, <<"", "">> >>,  \* 474
    << <<"stats30", "Met1_std_wnd_dir">>, <<"", "">> >>,  \* 475
    << <<"stats30", "Rain_mm_Tot">>, <<"", "">> >>,  \* 476
    << <<"stats30", "soil_5TM_ID5_epsilon_Avg">>, <<"", "soil_5TM_ID5_E_Avg">> >>,  \* 477
    << <<"stats30", "soil_5TM_ID5_E_Avg">>, <<"", "">> >>,  \* 478
    << <<"stats30", "soil_5TM_ID5_T_Avg">>, <<"", "">> >>,  \* 479
    << <<"stats30", "soil_5TM_ID5_VWC_Avg">>, <<"", "">> >>,  \* 480
    << <<"stats30", "soil_5TM_ID6_epsilon_Avg">>, <<"", "soil_5TM_ID6_E_Avg">> >>,  \* 481
    << <<"stats30", "soil_5TM_ID6_E_Avg">>, <<"", "">> >>,  \* 482
    << <<"stats30", "soil_5TM_ID6_T_Avg">>, <<"", "">> >>,  \* 483
    << <<"stats30", "soil_5TM_ID6_VWC_Avg">>, <<"", "">> >>,  \* 484
    << <<"stats30", "soil_5TM_ID7_epsilon_Avg">>, <<"", "soil_5TM_ID7_E_Avg">> >>,  \* 485
    << <<"stats30", "soil_5TM_ID7_E_Avg">>, <<"", "">> >>,  \* 486
    << <<"stats30", "soil_5TM_ID7_T_Avg">>, <<"", "">> >>,  \* 487
    << <<"stats30", "soil_5TM_ID7_VWC_Avg">>, <<"", "">> >>,  \* 488
    << <<"stats30", "soil_5TM_ID8_epsilon_Avg">>, <<"", "soil_5TM_ID8_E_Avg">> >>,  \* 489
    << <<"stats30", "soil_5TM_ID8_E_Avg">>, <<"", "">> >>,  \* 490
    << <<"stats30", "soil_5TM_ID8_T_Avg">>, <<"", "">> >>,  \* 491
    << <<"stats30", "soil_5TM_ID8_VWC_Avg">>, <<"", "">> >>,  \* 492
    << <<"stats30", "soil_5TM_ID9_epsilon_Avg">>, <<"", "soil_5TM_ID9_E_Avg">> >>,  \* 493
    << <<"stats30", "soil_5TM_ID9_E_Avg">>, <<"", "">> >>,  \* 494
    << <<"stats30", "soil_5TM_ID9_T_Avg">>, <<"", "">> >>,  \* 495
    << <<"stats30", "soil_5TM_ID9_VWC_Avg">>, <<"", "">> >>,  \* 496
    << <<"stats30", "panel_tmpr_Avg">>, <<"", "">> >>,  \* 497
    << <<"stats30", "batt_volt_Avg">>, <<"", "">> >>,  \* 498
    << <<"stats5", "TIMESTAMP">>, <<"", "">> >>,  \* 500
    << <<"stats5", "RECORD">>, <<"", "">> >>,  \* 501
    << <<"stats5", "L">>, <<"", "">> >>,  \* 502
    << <<"stats5", "u_star">>, <<"", "">> >>,  \* 503
    << <<"stats5", "tau">>, <<"", "">> >>,  \* 504
    << <<"stats5", "Fc_wpl">>, <<"", "">> >>,  \* 505
    << <<"stats5", "LE_wpl">>, <<"", "">> >>,  \* 506
    << <<"stats5", "Hc">>, <<"", "">> >>,  \* 507
    << <<"stats5", "Ts_Avg">>, <<"", "">> >>,  \* 508
    << <<"stats5", "Ts_Std">>, <<"", "">> >>,  \* 509
    << <<"stats5", "Tc_Avg">>, <<"", "">> >>,  \* 510
    << <<"stats5", "Uz_Std">>, <<"", "">> >>,  \* 511
    << <<"stats5", "wnd_spd">>, <<"", "">> >>,  \* 512
    << <<"stats5", "rslt_wnd_spd">>, <<"", "">> >>,  \* 513
    << <<"stats5", "rslt_wnd_dir">>, <<"", "">> >>,  \* 514
    << <<"stats5", "std_wnd_dir">>, <<"", "">> >>,  \* 515
    << <<"stats5", "sonic_uptime">>, <<"", "">> >>,  \* 516
    << <<"stats5", "CO2_ppm_Avg">>, <<"", "">> >>,  \* 517
    << <<"stats5", "CO2_mg_m3_Avg">>, <<"", "">> >>,  \* 518
    << <<"stats5", "CO2_mg_m3_Std">>, <<"", "">> >>,  \* 519
    << <<"stats5", "CO2_signal_Avg">>, <<"", "">> >>,  \* 520
    << <<"stats5", "H2O_g_kg_Avg">>, <<"", "">> >>,  \* 521
    << <<"stats5", "H2O_g_m3_Avg">>, <<"", "">> >>,  \* 522
    << <<"stats5", "H2O_g_m3_Std">>, <<"", "">> >>,  \* 523
    << <<"stats5", "H2O_signal_Avg">>, <<"", "">> >>,  \* 524
    << <<"stats5", "amb_tmpr_Avg">>, <<"", "">> >>,  \* 525
    << <<"stats5", "amb_press_Avg">>, <<"", "">> >>,  \* 526
    << <<"stats5", "irga_uptime">>, <<"", "">> >>,  \* 527
    << <<"stats5", "T_hmp_Avg">>, <<"", "">> >>,  \* 528
    << <<"stats5", "RH_hmp_Avg">>, <<"", "">> >>,  \* 529
    << <<"stats5", "e_hmp_Avg">>, <<"", "">> >>,  \* 530
    << <<"stats5", "e_sat_hmp_Avg">>, <<"", "">> >>,  \* 531
    << <<"stats5", "Rn_Avg">>, <<"", "">> >>,  \* 532
    << <<"stats5", "Rn_meas_Avg">>, <<"", "">> >>,  \* 533
    << <<"stats5", "PAR_totflx_Tot">>, <<"", "">> >>,  \* 534
    << <<"stats5", "PAR_flxdens_Avg">>, <<"", "">> >>,  \* 535
    << <<"stats5", "Met1_wnd_spd">>, <<"", "">> >>,  \* 536
    << <<"stats5", "Met1_rslt_wnd_spd">>, <<"", "">> >>,  \* 537
    << <<"stats5", "Met1_wnd_dir">>, <<"", "Met1_rslt_wnd_dir">> >>,  \* 538
    << <<"stats5", "Met1_rslt_wnd_dir">>, <<"", "">> >>,  \* 539
    << <<"stats5", "Met1_std_wnd_dir">>, <<"", "">> >>,  \* 540
    << <<"stats5", "Rain_mm_Tot">>, <<"", "">> >>,  \* 541
    << <<"stats5", "soil_5TM_ID5_epsilon_Avg">>, <<"", "soil_5TM_ID5_E_Avg">> >>,  \* 542
    << <<"stats5", "soil_5TM_ID5_E_Avg">>, <<"", "">> >>,  \* 543
    << <<"stats5", "soil_5TM_ID5_T_Avg">>, <<"", "">> >>,  \* 544
    << <<"stats5", "soil_5TM_ID5_VWC_Avg">>, <<"", "">> >>,  \* 545
    << <<"stats5", "soil_5TM_ID6_epsilon_Avg">>, <<"", "soil_5TM_ID6_E_Avg">> >>,  \* 546
    << <<"stats5", "soil_5TM_ID6_E_Avg">>, <<"", "">> >>,  \* 547
    << <<"stats5", "soil_5TM_ID6_T_Avg">>, <<"", "">> >>,  \* 548
    << <<"stats5", "soil_5TM_ID6_VWC_Avg">>, <<"", "">> >>,  \* 549
    << <<"stats5", "soil_5TM_ID7_epsilon_Avg">>, <<"", "soil_5TM_ID7_E_Avg">> >>,  \* 550
    << <<"stats5", "soil_5TM_ID7_E_Avg">>, <<"", "">> >>,  \* 551
    << <<"stats5", "soil_5TM_ID7_T_Avg">>, <<"", "">> >>,  \* 552
    << <<"stats5", "soil_5TM_ID7_VWC_Avg">>, <<"", "">> >>,  \* 553
    << <<"stats5", "soil_5TM_ID8_epsilon_Avg">>, <<"", "soil_5TM_ID8_E_Avg">> >>,  \* 554
    << <<"stats5", "soil_5TM_ID8_E_Avg">>, <<"", "">> >>,  \* 555
    << <<"stats5", "soil_5TM_ID8_T_Avg">>, <<"", "">> >>,  \* 556
    << <<"stats5", "soil_5TM_ID8_VWC_Avg">>, <<"", "">> >>,  \* 557
    << <<"stats5", "soil_5TM_ID9_epsilon_Avg">>, <<"", "soil_5TM_ID9_E_Avg">> >>,  \* 558
    << <<"stats5", "soil_5TM_ID9_E_Avg">>, <<"", "">> >>,  \* 559
    << <<"stats5", "soil_5TM_ID9_T_Avg">>, <<"", "">> >>,  \* 560
    << <<"stats5", "soil_5TM_ID9_VWC_Avg">>, <<"", "">> >>,  \* 561
    << <<"stats5", "panel_tmpr_Avg">>, <<"", "">> >>,  \* 562
    << <<"stats5", "batt_volt_Avg">>, <<"", "">> >>,  \* 563
    << <<"site_daily", "TIMESTAMP">>, <<"", "">> >>,  \* 565
    << <<"site_daily", "RECORD">>, <<"", "">> >>,  \* 566
    << <<"site_daily", "sonic_azimuth">>, <<None, None>> >>,  \* 568
    << <<"site_daily", "latitude">>, <<"", "latitude_Med">> >>,  \* 569
    << <<"site_daily", "latitude_Med">>, <<"", "">> >>,  \* 570
    << <<"site_daily", "latitude_a_Avg">>, <<None, None>> >>,  \* 571
    << <<"site_daily", "latitude_b_Avg">>, <<None, None>> >>,  \* 572
    << <<"site_daily", "longitude">>, <<"", "longitude_Med">> >>,  \* 573
    << <<"site_daily", "longitude_Med">>, <<"", "">> >>,  \* 574
    << <<"site_daily", "longitude_a_Avg">>, <<None, None>> >>,  \* 575
    << <<"site_daily", "longitude_b_Avg">>, <<None, None>> >>,  \* 576
    << <<"site_daily", "magnetic_variation_Med">>, <<"", "">> >>,  \* 577
    << <<"site_daily", "magnetic_variation_Avg">>, <<None, None>> >>,  \* 578
    << <<"site_daily", "nmbr_satellites_Avg">>, <<"", "">> >>,  \* 579
    << <<"site_daily", "altitude_Med">>, <<"", "">> >>,  \* 580
    << <<"site_daily", "altitude_Avg">>, <<"", "">> >>,  \* 581
    << <<"site_daily", "gps_ready_Min">>, <<"", "">> >>,  \* 582
    << <<"site_daily", "max_clock_change">>, <<"", "">> >>,  \* 583
    << <<"site_daily", "nmbr_clock_change">>, <<"", "">> >>,  \* 584
    << <<"site_daily", "RunSig">>, <<None, None>> >>,  \* 585
    << <<"site_daily", "ProgSig">>, <<None, None>> >>,  \* 586
    << <<"stats30_soil", "TIMESTAMP">>, <<None, None>> >>,  \* 591
    << <<"stats30_soil", "RECORD">>, <<None, None>> >>,  \* 592
    << <<"stats30_soil", "soil_5TM_ID5_epsilon_Avg">>, <<"stats30", "">> >>,  \* 593
    << <<"stats30_soil", "soil_5TM_ID5_T_Avg">>, <<"stats30", "">> >>,  \* 594
    << <<"stats30_soil", "soil_5TM_ID5_VWC_Avg">>, <<"stats30", "">> >>,  \* 595
    << <<"stats30_soil", "soil_5TM_ID6_epsilon_Avg">>, <<"stats30", "">> >>,  \* 596
    << <<"stats30_soil", "soil_5TM_ID6_T_Avg">>, <<"stats30", "">> >>,  \* 597
    << <<"stats30_soil", "soil_5TM_ID6_VWC_Avg">>, <<"stats30", "">> >>,  \* 598
    << <<"stats30_soil", "soil_5TM_ID7_epsilon_Avg">>, <<"stats30", "">> >>,  \* 599
    << <<"stats30_soil", "soil_5TM_ID7_T_Avg">>, <<"stats30", "">> >>,  \* 600
    << <<"stats30_soil", "soil_5TM_ID7_VWC_Avg">>, <<"stats30", "">> >>,  \* 601
    << <<"stats30_soil", "soil_5TM_ID8_epsilon_Avg">>, <<"stats30", "">> >>,  \* 602
    << <<"stats30_soil", "soil_5TM_ID8_T_Avg">>, <<"stats30", "">> >>,  \* 603
    << <<"stats30_soil", "soil_5TM_ID8_VWC_Avg">>, <<"stats30", "">> >>,  \* 604
    << <<"stats30_soil", "soil_5TM_ID9_epsilon_Avg">>, <<"stats30", "">> >>,  \* 605
    << <<"stats30_soil", "soil_5TM_ID9_T_Avg">>, <<"stats30", "">> >>,  \* 606
    << <<"stats30_soil", "soil_5TM_ID9_VWC_Avg">>, <<"stats30", "">> >>,  \* 607
    << <<"stats30_soil", "soil_hfp1_heat_flux_Avg">>, <<"stats30_hfp", "">> >>,  \* 608
    << <<"stats30_soil", "soil_hfp1_sensitivity">>, <<"stats30_hfp", "">> >>,  \* 609
    << <<"stats30_soil", "soil_hfp2_heat_flux_Avg">>, <<"stats30_hfp", "">> >>,  \* 610
    << <<"stats30_soil", "soil_hfp2_sensitivity">>, <<"stats30_hfp", "">> >>,  \* 611
    << <<"stats5_soil", "TIMESTAMP">>, <<None, None>> >>,  \* 613
    << <<"stats5_soil", "RECORD">>, <<None, None>> >>,  \* 614
    << <<"stats5_soil", "soil_5TM_ID5_epsilon_Avg">>, <<"stats5", "">> >>,  \* 615
    << <<"stats5_soil", "soil_5TM_ID5_T_Avg">>, <<"stats5", "">> >>,  \* 616
    << <<"stats5_soil", "soil_5TM_ID5_VWC_Avg">>, <<"stats5", "">> >>,  \* 617
    << <<"stats5_soil", "soil_5TM_ID6_epsilon_Avg">>, <<"stats5", "">> >>,  \* 618
    << <<"stats5_soil", "soil_5TM_ID6_T_Avg">>, <<"stats5", "">> >>,  \* 619
    << <<"stats5_soil", "soil_5TM_ID6_VWC_Avg">>, <<"stats5", "">> >>,  \* 620
    << <<"stats5_soil", "soil_5TM_ID7_epsilon_Avg">>, <<"stats5", "">> >>,  \* 621
    << <<"stats5_soil", "soil_5TM_ID7_T_Avg">>, <<"stats5", "">> >>,  \* 622
    << <<"stats5_soil", "soil_5TM_ID7_VWC_Avg">>, <<"stats5", "">> >>,  \* 623
    << <<"stats5_soil", "soil_5TM_ID8_epsilon_Avg">>, <<"stats5", "">> >>,  \* 624
    << <<"stats5_soil", "soil_5TM_ID8_T_Avg">>, <<"stats5", "">> >>,  \* 625
    << <<"stats5_soil", "soil_5TM_ID8_VWC_Avg">>, <<"stats5", "">> >>,  \* 626
    << <<"stats5_soil", "soil_5TM_ID9_epsilon_Avg">>, <<"stats5", "">> >>,  \* 627
    << <<"stats5_soil", "soil_5TM_ID9_T_Avg">>, <<"stats5", "">> >>,  \* 628
    << <<"stats5_soil", "soil_5TM_ID9_VWC_Avg">>, <<"stats5", "">> >>,  \* 629
    << <<"stats5_soil", "soil_hfp1_heat_flux_Avg">>, <<"stats5_hfp", "">> >>,  \* 630
    << <<"stats5_soil", "soil_hfp1_sensitivity">>, <<"stats5_hfp", "">> >>,  \* 631
    << <<"stats5_soil", "soil_hfp2_heat_flux_Avg">>, <<"stats5_hfp", "">> >>,  \* 632
    << <<"stats5_soil", "soil_hfp2_sensitivity">>, <<"stats5_hfp", "">> >>,  \* 633
    << <<"tsdata_n2o_co", "TIMESTAMP">>, <<"", "">> >>,  \* 639
    << <<"tsdata_n2o_co", "RECORD">>, <<"", "">> >>,  \* 640
    << <<"tsdata_n2o_co", "lgr_n2o">>, <<"", "">> >>,  \* 641
    << <<"tsdata_n2o_co", "lgr_co">>, <<"", "">> >>,  \* 642
    << <<"stats30_n2o_co", "TIMESTAMP">>, <<"", "">> >>,  \* 644
    << <<"stats30_n2o_co", "RECORD">>, <<"", "">> >>,  \* 645
    << <<"stats30_n2o_co", "lgr_n2o_Avg">>, <<"", "">> >>,  \* 646
    << <<"stats30_n2o_co", "lgr_n2o_Std">>, <<"", "">> >>,  \* 647
    << <<"stats30_n2o_co", "lgr_co_Avg">>, <<"", "">> >>,  \* 648
    << <<"stats30_n2o_co", "lgr_co_Std">>, <<"", "">> >>,  \* 649
    << <<"stats30_n2o_co", "lgr_uptime">>, <<"", "lgr_n2o_co_uptime">> >>,  \* 650
    << <<"stats30_n2o_co", "cov_n2o_Uz">>, <<None, None>> >>,  \* 651
    << <<"stats30_n2o_co", "cov_co_Uz">>, <<None, None>> >>,  \* 652
    << <<"stats30_n2o_co", "lgr_n2o_co_uptime">>, <<"", "">> >>,  \* 653
    << <<"stats5_n2o_co", "TIMESTAMP">>, <<"", "">> >>,  \* 655
    << <<"stats5_n2o_co", "RECORD">>, <<"", "">> >>,  \* 656
    << <<"stats5_n2o_co", "lgr_n2o_Avg">>, <<"", "">> >>,  \* 657
    << <<"stats5_n2o_co", "lgr_n2o_Std">>, <<"", "">> >>,  \* 658
    << <<"stats5_n2o_co", "lgr_co_Avg">>, <<"", "">> >>,  \* 659
    << <<"stats5_n2o_co", "lgr_co_Std">>, <<"", "">> >>,  \* 660
    << <<"stats5_n2o_co", "lgr_uptime">>, <<"", "lgr_n2o_co_uptime">> >>,  \* 661
    << <<"stats5_n2o_co", "cov_n2o_Uz">>, <<None, None>> >>,  \* 662
    << <<"stats5_n2o_co", "cov_co_Uz">>, <<None, None>> >>,  \* 663
    << <<"stats5_n2o_co", "lgr_n2o_co_uptime">>, <<"", "">> >>,  \* 664
    << <<"tsdata_extra", "TIMESTAMP">>, <<"tsdata_n2o_co", "">> >>,  \* 669
    << <<"tsdata_extra", "RECORD">>, <<"tsdata_n2o_co", "">> >>,  \* 670
    << <<"tsdata_extra", "lgr_n2o">>, <<"tsdata_n2o_co", "">> >>,  \* 671
    << <<"tsdata_extra", "lgr_co">>, <<"tsdata_n2o_co", "">> >>,  \* 672
    << <<"stats30_extra", "TIMESTAMP">>, <<"stats30_n2o_co", "">> >>,  \* 674
    << <<"stats30_extra", "RECORD">>, <<"stats30_n2o_co", "">> >>,  \* 675
    << <<"stats30_extra", "lgr_n2o_Avg">>, <<"stats30_n2o_co", "">> >>,  \* 676
    << <<"stats30_extra", "lgr_n2o_Std">>, <<"stats30_n2o_co", "">> >>,  \* 677
    << <<"stats30_extra", "lgr_co_Avg">>, <<"stats30_n2o_co", "">> >>,  \* 678
    << <<"stats30_extra", "lgr_co_Std">>, <<"stats30_n2o_co", "">> >>,  \* 679
    << <<"stats30_extra", "lgr_uptime">>, <<"stats30_n2o_co", "">> >>,  \* 680
    << <<"stats30_extra", "cov_n2o_Uz">>, <<"stats30_n2o_co", "">> >>,  \* 681
    << <<"stats30_extra", "cov_co_Uz">>, <<"stats30_n2o_co", "">> >>,  \* 682
    << <<"stats5_extra", "TIMESTAMP">>, <<"stats5_n2o_co", "">> >>,  \* 684
    << <<"stats5_extra", "RECORD">>, <<"stats5_n2o_co", "">> >>,  \* 685
    << <<"stats5_extra", "lgr_n2o_Avg">>, <<"stats5_n2o_co", "">> >>,  \* 686
    << <<"stats5_extra", "lgr_n2o_Std">>, <<"stats5_n2o_co", "">> >>,  \* 687
    << <<"stats5_extra", "lgr_co_Avg">>, <<"stats5_n2o_co", "">> >>,  \* 688
    << <<"stats5_extra", "lgr_co_Std">>, <<"stats5_n2o_co", "">> >>,  \* 689
    << <<"stats5_extra", "lgr_uptime">>, <<"stats5_n2o_co", "">> >>,  \* 690
    << <<"stats5_extra", "cov_n2o_Uz">>, <<"stats5_n2o_co", "">> >>,  \* 691
    << <<"stats5_extra", "cov_co_Uz">>, <<"stats5_n2o_co", "">> >>,  \* 692
    << <<"CFNT_tsdata", "TIMESTAMP">>, <<"tsdata", "">> >>,  \* 697
    << <<"CFNT_tsdata", "RECORD">>, <<"tsdata", "">> >>,  \* 698
    << <<"CFNT_tsdata", "Ux">>, <<"tsdata", "">> >>,  \* 699
    << <<"CFNT_tsdata", "Uy">>, <<"tsdata", "">> >>,  \* 700
    << <<"CFNT_tsdata", "Uz">>, <<"tsdata", "">> >>,  \* 701
    << <<"CFNT_tsdata", "Ts">>, <<"tsdata", "">> >>,  \* 702
    << <<"CFNT_tsdata", "diag_sonic">>, <<"tsdata", "">> >>,  \* 703
    << <<"CFNT_tsdata", "CO2">>, <<"tsdata", "">> >>,  \* 704
    << <<"CFNT_tsdata", "H2O">>, <<"tsdata", "">> >>,  \* 705
    << <<"CFNT_tsdata", "diag_irga">>, <<"tsdata", "">> >>,  \* 706
    << <<"CFNT_tsdata", "amb_tmpr">>, <<"tsdata", "">> >>,  \* 707
    << <<"CFNT_tsdata", "amb_press">>, <<"tsdata", "">> >>,  \* 708
    << <<"CFNT_tsdata", "CO2_signal">>, <<"tsdata", "">> >>,  \* 709
    << <<"CFNT_tsdata", "H2O_signal">>, <<"tsdata", "">> >>,  \* 710
    << <<"CFNT_stats30", "TIMESTAMP">>, <<"stats30", "">> >>,  \* 712
    << <<"CFNT_stats30", "RECORD">>, <<"stats30", "">> >>,  \* 713
    << <<"CFNT_stats30", "L">>, <<"stats30", "">> >>,  \* 714
    << <<"CFNT_stats30", "u_star">>, <<"stats30", "">> >>,  \* 715
    << <<"CFNT_stats30", "tau">>, <<"stats30", "">> >>,  \* 716
    << <<"CFNT_stats30", "Fc_wpl">>, <<"stats30", "">> >>,  \* 717
    << <<"CFNT_stats30", "LE_wpl">>, <<"stats30", "">> >>,  \* 718
    << <<"CFNT_stats30", "Hc">>, <<"stats30", "">> >>,  \* 719
    << <<"CFNT_stats30", "Ts_Avg">>, <<"stats30", "">> >>,  \* 720
    << <<"CFNT_stats30", "Ts_Std">>, <<"stats30", "">> >>,  \* 721
    << <<"CFNT_stats30", "Tc_Avg">>, <<"stats30", "">> >>,  \* 722
    << <<"CFNT_stats30", "Tc_Std">>, <<None, None>> >>,  \* 723
    << <<"CFNT_stats30", "Uz_Std">>, <<"stats30", "">> >>,  \* 724
    << <<"CFNT_stats30", "wnd_spd">>, <<"stats30", "">> >>,  \* 725
    << <<"CFNT_stats30", "rslt_wnd_spd">>, <<"stats30", "">> >>,  \* 726
    << <<"CFNT_stats30", "std_wnd_dir">>, <<"stats30", "">> >>,  \* 727
    << <<"CFNT_stats30", "wnd_dir_compass">>, <<"stats30", "rslt_wnd_dir">> >>,  \* 728
    << <<"CFNT_stats30", "sonic_samples_Tot">>, <<None, None>> >>,  \* 729
    << <<"CFNT_stats30", "sonic_uptime">>, <<"stats30", "">> >>,  \* 730
    << <<"CFNT_stats30", "CO2_ppm_Avg">>, <<"stats30", "">> >>,  \* 731
    << <<"CFNT_stats30", "CO2_ppm_Std">>, <<None, None>> >>,  \* 732
    << <<"CFNT_stats30", "CO2_mg_m3_Avg">>, <<"stats30", "">> >>,  \* 733
    << <<"CFNT_stats30", "CO2_mg_m3_Std">>, <<"stats30", "">> >>,  \* 734
    << <<"CFNT_stats30", "CO2_signal_Avg">>, <<"stats30", "">> >>,  \* 735
    << <<"CFNT_stats30", "H2O_g_kg_Avg">>, <<"stats30", "">> >>,  \* 736
    << <<"CFNT_stats30", "H2O_g_kg_Std">>, <<None, None>> >>,  \* 737
    << <<"CFNT_stats30", "H2O_g_m3_Avg">>, <<"stats30", "">> >>,  \* 738
    << <<"CFNT_stats30", "H2O_g_m3_Std">>, <<"stats30", "">> >>,  \* 739
    << <<"CFNT_stats30", "H2O_signal_Avg">>, <<"stats30", "">> >>,  \* 740
    << <<"CFNT_stats30", "amb_tmpr_Avg">>, <<"stats30", "">> >>,  \* 741
    << <<"CFNT_stats30", "amb_press_Avg">>, <<"stats30", "">> >>,  \* 742
    << <<"CFNT_stats30", "irga_samples_Tot">>, <<None, None>> >>,  \* 743
    << <<"CFNT_stats30", "irga_uptime">>, <<"stats30", "">> >>,  \* 744
    << <<"CFNT_stats30", "T_hmp_Avg">>, <<"stats30", "">> >>,  \* 745
    << <<"CFNT_stats30", "RH_hmp_Avg">>, <<"stats30", "">> >>,  \* 746
    << <<"CFNT_stats30", "e_hmp_Avg">>, <<"stats30", "">> >>,  \* 747
    << <<"CFNT_stats30", "e_sat_hmp_Avg">>, <<"stats30", "">> >>,  \* 748
    << <<"CFNT_stats30", "hmp_uptime">>, <<None, None>> >>,  \* 749
    << <<"CFNT_stats30", "Rn_Avg">>, <<"stats30", "">> >>,  \* 750
    << <<"CFNT_stats30", "Rn_meas_Avg">>, <<"stats30", "">> >>,  \* 751
    << <<"CFNT_stats30", "PAR_totflx_Tot">>, <<"stats30", "">> >>,  \* 752
    << <<"CFNT_stats30", "PAR_flxdens_Avg">>, <<"stats30", "">> >>,  \* 753
    << <<"CFNT_stats30", "Met1_wnd_spd">>, <<"stats30", "">> >>,  \* 754
    << <<"CFNT_stats30", "Met1_rslt_wnd_spd">>, <<"stats30", "">> >>,  \* 755
    << <<"CFNT_stats30", "Met1_wnd_dir">>, <<"stats30", "">> >>,  \* 756
    << <<"CFNT_stats30", "Met1_std_wnd_dir">>, <<"stats30", "">> >>,  \* 757
    << <<"CFNT_stats30", "Met1_uptime">>, <<None, None>> >>,  \* 758
    << <<"CFNT_stats30", "Rain_mm_Tot">>, <<"stats30", "">> >>,  \* 759
    << <<"CFNT_stats30", "panel_tmpr_Avg">>, <<"stats30", "">> >>,  \* 760
    << <<"CFNT_stats30", "batt_volt_Avg">>, <<"stats30", "">> >>,  \* 761
    << <<"CFNT_stats5", "TIMESTAMP">>, <<"stats5", "">> >>,  \* 763
    << <<"CFNT_stats5", "RECORD">>, <<"stats5", "">> >>,  \* 764
    << <<"CFNT_stats5", "L">>, <<"stats5", "">> >>,  \* 765
    << <<"CFNT_stats5", "u_star">>, <<"stats5", "">> >>,  \* 766
    << <<"CFNT_stats5", "tau">>, <<"stats5", "">> >>,  \* 767
    << <<"CFNT_stats5", "Fc_wpl">>, <<"stats5", "">> >>,  \* 768
    << <<"CFNT_stats5", "LE_wpl">>, <<"stats5", "">> >>,  \* 769
    << <<"CFNT_stats5", "Hc">>, <<"stats5", "">> >>,  \* 770
    << <<"CFNT_stats5", "Ts_Avg">>, <<"stats5", "">> >>,  \* 771
    << <<"CFNT_stats5", "Ts_Std">>, <<"stats5", "">> >>,  \* 772
    << <<"CFNT_stats5", "Tc_Avg">>, <<"stats5", "">> >>,  \* 773
    << <<"CFNT_stats5", "Tc_Std">>, <<None, None>> >>,  \* 774
    << <<"CFNT_stats5", "Uz_Std">>, <<"stats5", "">> >>,  \* 775
    << <<"CFNT_stats5", "wnd_spd">>, <<"stats5", "">> >>,  \* 776
    << <<"CFNT_stats5", "rslt_wnd_spd">>, <<"stats5", "">> >>,  \* 777
    << <<"CFNT_stats5", "std_wnd_dir">>, <<"stats5", "">> >>,  \* 778
    << <<"CFNT_stats5", "wnd_dir_compass">>, <<"stats5", "rslt_wnd_spd">> >>,  \* 779
    << <<"CFNT_stats5", "sonic_samples_Tot">>, <<None, None>> >>,  \* 780
    << <<"CFNT_stats5", "sonic_uptime">>, <<"stats5", "">> >>,  \* 781
    << <<"CFNT_stats5", "CO2_ppm_Avg">>, <<"stats5", "">> >>,  \* 782
    << <<"CFNT_stats5", "CO2_ppm_Std">>, <<None, None>> >>,  \* 783
    << <<"CFNT_stats5", "CO2_mg_m3_Avg">>, <<"stats5", "">> >>,  \* 784
    << <<"CFNT_stats5", "CO2_mg_m3_Std">>, <<"stats5", "">> >>,  \* 785
    << <<"CFNT_stats5", "CO2_signal_Avg">>, <<"stats5", "">> >>,  \* 786
    << <<"CFNT_stats5", "H2O_g_kg_Avg">>, <<"stats5", "">> >>,  \* 787
    << <<"CFNT_stats5", "H2O_g_kg_Std">>, <<None, None>> >>,  \* 788
    << <<"CFNT_stats5", "H2O_g_m3_Avg">>, <<"stats5", "">> >>,  \* 789
    << <<"CFNT_stats5", "H2O_g_m3_Std">>, <<"stats5", "">> >>,  \* 790
    << <<"CFNT_stats5", "H2O_signal_Avg">>, <<"stats5", "">> >>,  \* 791
    << <<"CFNT_stats5", "amb_tmpr_Avg">>, <<"stats5", "">> >>,  \* 792
    << <<"CFNT_stats5", "amb_press_Avg">>, <<"stats5", "">> >>,  \* 793
    << <<"CFNT_stats5", "irga_samples_Tot">>, <<None, None>> >>,  \* 794
    << <<"CFNT_stats5", "irga_uptime">>, <<"stats5", "">> >>,  \* 795
    << <<"CFNT_stats5", "T_hmp_Avg">>, <<"stats5", "">> >>,  \* 796
    << <<"CFNT_stats5", "RH_hmp_Avg">>, <<"stats5", "">> >>,  \* 797
    << <<"CFNT_stats5", "e_hmp_Avg">>, <<"stats5", "">> >>,  \* 798
    << <<"CFNT_stats5", "e_sat_hmp_Avg">>, <<"stats5", "">> >>,  \* 799
    << <<"CFNT_stats5", "hmp_uptime">>, <<None, None>> >>,  \* 800
    << <<"CFNT_stats5", "Rn_Avg">>, <<"stats5", "">> >>,  \* 801
    << <<"CFNT_stats5", "Rn_meas_Avg">>, <<"stats5", "">> >>,  \* 802
    << <<"CFNT_stats5", "PAR_totflx_Tot">>, <<"stats5", "">> >>,  \* 803
    << <<"CFNT_stats5", "PAR_flxdens_Avg">>, <<"stats5", "">> >>,  \* 804
    << <<"CFNT_stats5", "Met1_wnd_spd">>, <<"stats5", "">> >>,  \* 805
    << <<"CFNT_stats5", "Met1_rslt_wnd_spd">>, <<"stats5", "">> >>,  \* 806
    << <<"CFNT_stats5", "Met1_wnd_dir">>, <<"stats5", "">> >>,  \* 807
    << <<"CFNT_stats5", "Met1_std_wnd_dir">>, <<"stats5", "">> >>,  \* 808
    << <<"CFNT_stats5", "Met1_uptime">>, <<None, None>> >>,  \* 809
    << <<"CFNT_stats5", "Rain_mm_Tot">>, <<"stats5", "">> >>,  \* 810
    << <<"CFNT_stats5", "panel_tmpr_Avg">>, <<"stats5", "">> >>,  \* 811
    << <<"CFNT_stats5", "batt_volt_Avg">>, <<"stats5", "">> >>,  \* 812
    << <<"CFNT_site_daily", "TIMESTAMP">>, <<"site_daily", "">> >>,  \* 814
    << <<"CFNT_site_daily", "RECORD">>, <<"site_daily", "">> >>,  \* 815
    << <<"CFNT_site_daily", "sonic_azimuth">>, <<"site_daily", "">> >>,  \* 816
    << <<"CFNT_site_daily", "latitude_a_Avg">>, <<"site_daily", "">> >>,  \* 817
    << <<"CFNT_site_daily", "latitude_b_Avg">>, <<"site_daily", "">> >>,  \* 818
    << <<"CFNT_site_daily", "longitude_a_Avg">>, <<"site_daily", "">> >>,  \* 819
    << <<"CFNT_site_daily", "longitude_b_Avg">>, <<"site_daily", "">> >>,  \* 820
    << <<"CFNT_site_daily", "latitude_a_Std">>, <<None, None>> >>,  \* 821
    << <<"CFNT_site_daily", "latitude_b_Std">>, <<None, None>> >>,  \* 822
    << <<"CFNT_site_daily", "longitude_a_Std">>, <<None, None>> >>,  \* 823
    << <<"CFNT_site_daily", "longitude_b_Std">>, <<None, None>> >>,  \* 824
    << <<"CFNT_site_daily", "magnetic_variation_Avg">>, <<"site_daily", "">> >>,  \* 825
    << <<"CFNT_site_daily", "magnetic_variation_Std">>, <<None, None>> >>,  \* 826
    << <<"CFNT_site_daily", "nmbr_satellites_Avg">>, <<"site_daily", "">> >>,  \* 827
    << <<"CFNT_site_daily", "altitude_Avg">>, <<"site_daily", "">> >>,  \* 828
    << <<"CFNT_site_daily", "altitude_Std">>, <<None, None>> >>,  \* 829
    << <<"CFNT_site_daily", "gps_ready_Min">>, <<"site_daily", "">> >>,  \* 830
    << <<"CFNT_site_daily", "max_clock_change">>, <<"site_daily", "">> >>,  \* 831
    << <<"CFNT_site_daily", "nmbr_clock_change">>, <<"site_daily", "">> >>,  \* 832
    << <<"CFNT_met_5min", "TIMESTAMP">>, <<"CFNT_stats5", "">> >>,  \* 837
    << <<"CFNT_met_5min", "RECORD">>, <<"CFNT_stats5", "">> >>,  \* 838
    << <<"CFNT_met_5min", "L">>, <<"CFNT_stats5", "">> >>,  \* 839
    << <<"CFNT_met_5min", "Hs">>, <<None, None>> >>,  \* 840
    << <<"CFNT_met_5min", "u_star">>, <<"CFNT_stats5", "">> >>,  \* 841
    << <<"CFNT_met_5min", "Ts_stdev">>, <<"CFNT_stats5", "Ts_Std">> >>,  \* 842
    << <<"CFNT_met_5min", "Uz_stdev">>, <<"CFNT_stats5", "Uz_Std">> >>,  \* 843
    << <<"CFNT_met_5min", "wnd_spd">>, <<"CFNT_stats5", "">> >>,  \* 844
    << <<"CFNT_met_5min", "rslt_wnd_spd">>, <<"CFNT_stats5", "">> >>,  \* 845
    << <<"CFNT_met_5min", "std_wnd_dir">>, <<"CFNT_stats5", "">> >>,  \* 846
    << <<"CFNT_met_5min", "wnd_dir_compass">>, <<"CFNT_stats5", "">> >>,  \* 847
    << <<"CFNT_met_5min", "Ts_Avg">>, <<"CFNT_stats5", "">> >>,  \* 848
    << <<"CFNT_met_5min", "sonic_samples_Tot">>, <<"CFNT_stats5", "">> >>,  \* 849
    << <<"CFNT_met_5min", "Fc_wpl">>, <<"CFNT_stats5", "">> >>,  \* 850
    << <<"CFNT_met_5min", "LE_wpl">>, <<"CFNT_stats5", "">> >>,  \* 851
    << <<"CFNT_met_5min", "Hc">>, <<"CFNT_stats5", "">> >>,  \* 852
    << <<"CFNT_met_5min", "CO2_stdev">>, <<"CFNT_stats5", "CO2_mg_m3_Std">> >>,  \* 853
    << <<"CFNT_met_5min", "H2O_stdev">>, <<"CFNT_stats5", "H2O_g_m3_Std">> >>,  \* 854
    << <<"CFNT_met_5min", "Tc_stdev">>, <<"CFNT_stats5", "Tc_Std">> >>,  \* 855
    << <<"CFNT_met_5min", "CO2_mean">>, <<"CFNT_stats5", "CO2_mg_m3_Avg">> >>,  \* 856
    << <<"CFNT_met_5min", "H2O_mean">>, <<"CFNT_stats5", "H2O_g_m3_Avg">> >>,  \* 857
    << <<"CFNT_met_5min", "amb_press_mean">>, <<"CFNT_stats5", "amb_press_Avg">> >>,  \* 858
    << <<"CFNT_met_5min", "Tc_mean">>, <<"CFNT_stats5", "Tc_Avg">> >>,  \* 859
    << <<"CFNT_met_5min", "CO2_sig_strgth_mean">>, <<"CFNT_stats5", "CO2_signal_Avg">> >>,  \* 860
    << <<"CFNT_met_5min", "H2O_sig_strgth_mean">>, <<"CFNT_stats5", "H2O_signal_Avg">> >>,  \* 861
    << <<"CFNT_met_5min", "T_hmp_mean">>, <<"CFNT_stats5", "T_hmp_Avg">> >>,  \* 862
    << <<"CFNT_met_5min", "RH_hmp_mean">>, <<"CFNT_stats5", "RH_hmp_Avg">> >>,  \* 863
    << <<"CFNT_met_5min", "Rn_Avg">>, <<"CFNT_stats5", "">> >>,  \* 864
    << <<"CFNT_met_5min", "Rn_meas_Avg">>, <<"CFNT_stats5", "">> >>,  \* 865
    << <<"CFNT_met_5min", "PAR_totflx_Tot">>, <<"CFNT_stats5", "">> >>,  \* 866
    << <<"CFNT_met_5min", "PAR_flxdens_Avg">>, <<"CFNT_stats5", "">> >>,  \* 867
    << <<"CFNT_met_5min", "034b_ws2">>, <<"CFNT_stats5", "Met1_wnd_spd">> >>,  \* 868
    << <<"CFNT_met_5min", "034b_wd2">>, <<None, None>> >>,  \* 869
    << <<"CFNT_met_5min", "034b_stdwd2">>, <<None, None>> >>,  \* 870
    << <<"CFNT_met_5min", "Rain_mm_Tot">>, <<"CFNT_stats5", "">> >>,  \* 871
    << <<"CFNT_met_5min", "latitude_a">>, <<None, None>> >>,  \* 873
    << <<"CFNT_met_5min", "latitude_b">>, <<None, None>> >>,  \* 874
    << <<"CFNT_met_5min", "longitude_a">>, <<None, None>> >>,  \* 875
    << <<"CFNT_met_5min", "longitude_b">>, <<None, None>> >>,  \* 876
    << <<"CFNT_met_5min", "magnetic_variation">>, <<None, None>> >>,  \* 877
    << <<"CFNT_met_5min", "altitude">>, <<None, None>> >>,  \* 878
    << <<"CFNT_met_5min", "max_clock_change">>, <<None, None>> >>,  \* 879
    << <<"CFNT_met_5min", "nmbr_clock_change">>, <<None, None>> >>,  \* 880
    << <<"CFNT_met_5min", "panel_tmpr_Avg">>, <<"CFNT_stats5", "">> >>,  \* 881
    << <<"CFNT_met_5min", "batt_volt_Avg">>, <<"CFNT_stats5", "">> >>,  \* 882
    << <<"extra_gas", "TIMESTAMP">>, <<None, None>> >>,  \* 887
    << <<"extra_gas", "RECORD">>, <<None, None>> >>,  \* 888
    << <<"extra_gas", "n2o_Avg">>, <<None, None>> >>,  \* 889
    << <<"extra_gas", "c_monoxide_Avg">>, <<None, None>> >>,  \* 890
    << <<"extra_gas", "ch4_Avg">>, <<None, None>> >>,  \* 891
    << <<"extra_gas", "co2_picarro_Avg">>, <<None, None>> >>,  \* 892
    << <<"extra_gas", "co2_mix_ratio_Avg">>, <<None, None>> >>,  \* 893
    << <<"extra_gas", "h2o_mix_ratio_Avg">>, <<None, None>> >>,  \* 894
    << <<"extra_gas", "034b_ws">>, <<None, None>> >>,  \* 895
    << <<"extra_gas", "034b_wd">>, <<None, None>> >>,  \* 896
    << <<"extra_gas", "034b_stdwd">>, <<None, None>> >>,  \* 897
    << <<"ts_data", "TIMESTAMP">>, <<"CFNT_tsdata", "">> >>,  \* 902
    << <<"ts_data", "RECORD">>, <<"CFNT_tsdata", "">> >>,  \* 903
    << <<"ts_data", "Ux">>, <<"CFNT_tsdata", "">> >>,  \* 904
    << <<"ts_data", "Uy">>, <<"CFNT_tsdata", "">> >>,  \* 905
    << <<"ts_data", "Uz">>, <<"CFNT_tsdata", "">> >>,  \* 906
    << <<"ts_data", "Ts">>, <<"CFNT_tsdata", "">> >>,  \* 907
    << <<"ts_data", "diag_sonic">>, <<"CFNT_tsdata", "">> >>,  \* 908
    << <<"ts_data", "atiUx">>, <<None, None>> >>,  \* 909
    << <<"ts_data", "atiUy">>, <<None, None>> >>,  \* 910
    << <<"ts_data", "atiUz">>, <<None, None>> >>,  \* 911
    << <<"ts_data", "atiTs">>, <<None, None>> >>,  \* 912
    << <<"ts_data", "CO2_molar">>, <<"", "co2_molar_density">> >>,  \* 913
    << <<"ts_data", "H2O_molar">>, <<"", "h2o_molar_density">> >>,  \* 914
    << <<"ts_data", "co2_molar_density">>, <<None, None>> >>,  \* 915
    << <<"ts_data", "h2o_molar_density">>, <<None, None>> >>,  \* 916
    << <<"ts_data", "co2_mix_ratio">>, <<"", "co2_molar_density">> >>,  \* 917
    << <<"ts_data", "h2o_mix_ratio">>, <<"", "h2o_molar_density">> >>,  \* 918
    << <<"ts_data", "n2o">>, <<None, None>> >>,  \* 919
    << <<"ts_data", "c_monoxide">>, <<None, None>> >>,  \* 920
    << <<"ts_data", "ch4">>, <<None, None>> >>,  \* 921
    << <<"ts_data", "co2_picarro">>, <<None, None>> >>,  \* 922
    << <<"ts_data", "CO2">>, <<"CFNT_tsdata", "">> >>,  \* 923
    << <<"ts_data", "H2O">>, <<"CFNT_tsdata", "">> >>,  \* 924
    << <<"ts_data", "diag_irga">>, <<"CFNT_tsdata", "">> >>,  \* 925
    << <<"ts_data", "amb_tmpr">>, <<"CFNT_tsdata", "">> >>,  \* 926
    << <<"ts_data", "amb_press">>, <<"CFNT_tsdata", "">> >>,  \* 927
    << <<"ts_data", "CO2_sig_strgth">>, <<"CFNT_tsdata", "CO2_signal">> >>,  \* 928
    << <<"ts_data", "H2O_sig_strgth">>, <<"CFNT_tsdata", "H2O_signal">> >>,  \* 929
    << <<"flux", "TIMESTAMP">>, <<"CFNT_stats30", "">> >>,  \* 931
    << <<"flux", "RECORD">>, <<"CFNT_stats30", "">> >>,  \* 932
    << <<"flux", "l">>, <<"", "L">> >>,  \* 933
    << <<"flux", "L">>, <<"CFNT_stats30", "">> >>,  \* 934
    << <<"flux", "Hs">>, <<None, None>> >>,  \* 935
    << <<"flux", "tau">>, <<"CFNT_stats30", "">> >>,  \* 936
    << <<"flux", "u_star">>, <<"CFNT_stats30", "">> >>,  \* 937
    << <<"flux", "Ts_stdev">>, <<"CFNT_stats30", "Ts_Std">> >>,  \* 938
    << <<"flux", "Ts_Ux_cov">>, <<None, None>> >>,  \* 939
    << <<"flux", "Ts_Uy_cov">>, <<None, None>> >>,  \* 940
    << <<"flux", "Ts_Uz_cov">>, <<None, None>> >>,  \* 941
    << <<"flux", "Ux_stdev">>, <<None, None>> >>,  \* 942
    << <<"flux", "Ux_Uy_cov">>, <<None, None>> >>,  \* 943
    << <<"flux", "Ux_Uz_cov">>, <<None, None>> >>,  \* 944
    << <<"flux", "Uy_stdev">>, <<None, None>> >>,  \* 945
    << <<"flux", "Uy_Uz_cov">>, <<None, None>> >>,  \* 946
    << <<"flux", "Uz_stdev">>, <<"CFNT_stats30", "Uz_Std">> >>,  \* 947
    << <<"flux", "wnd_spd">>, <<"CFNT_stats30", "">> >>,  \* 948
    << <<"flux", "rslt_wnd_spd">>, <<"CFNT_stats30", "">> >>,  \* 949
    << <<"flux", "wnd_dir_sonic">>, <<None, None>> >>,  \* 950
    << <<"flux", "std_wnd_dir">>, <<"CFNT_stats30", "">> >>,  \* 951
    << <<"flux", "wnd_dir_compass">>, <<"CFNT_stats30", "">> >>,  \* 952
    << <<"flux", "Ux_Avg">>, <<None, None>> >>,  \* 953
    << <<"flux", "Uy_Avg">>, <<None, None>> >>,  \* 954
    << <<"flux", "Uz_Avg">>, <<None, None>> >>,  \* 955
    << <<"flux", "Ts_Avg">>, <<"CFNT_stats30", "">> >>,  \* 956
    << <<"flux", "sonic_azimuth">>, <<None, None>> >>,  \* 957
    << <<"flux", "sonic_samples_Tot">>, <<None, None>> >>,  \* 958
    << <<"flux", "no_sonic_head_Tot">>, <<None, None>> >>,  \* 959
    << <<"flux", "no_new_sonic_data_Tot">>, <<None, None>> >>,  \* 960
    << <<"flux", "amp_l_f_Tot">>, <<None, None>> >>,  \* 961
    << <<"flux", "amp_h_f_Tot">>, <<None, None>> >>,  \* 962
    << <<"flux", "sig_lck_f_Tot">>, <<None, None>> >>,  \* 963
    << <<"flux", "del_T_f_Tot">>, <<None, None>> >>,  \* 964
    << <<"flux", "aq_sig_f_Tot">>, <<None, None>> >>,  \* 965
    << <<"flux", "sonic_cal_err_f_Tot">>, <<None, None>> >>,  \* 966
    << <<"flux", "Fc_wpl">>, <<"CFNT_stats30", "">> >>,  \* 967
    << <<"flux", "LE_wpl">>, <<"CFNT_stats30", "">> >>,  \* 968
    << <<"flux", "Hc">>, <<"CFNT_stats30", "">> >>,  \* 969
    << <<"flux", "CO2_stdev">>, <<"CFNT_stats30", "CO2_mg_m3_Std">> >>,  \* 970
    << <<"flux", "CO2_Ux_cov">>, <<None, None>> >>,  \* 971
    << <<"flux", "CO2_Uy_cov">>, <<None, None>> >>,  \* 972
    << <<"flux", "CO2_Uz_cov">>, <<None, None>> >>,  \* 973
    << <<"flux", "H2O_stdev">>, <<"CFNT_stats30", "H2O_g_m3_Std">> >>,  \* 974
    << <<"flux", "H2O_Ux_cov">>, <<None, None>> >>,  \* 975
    << <<"flux", "H2O_Uy_cov">>, <<None, None>> >>,  \* 976
    << <<"flux", "H2O_Uz_cov">>, <<None, None>> >>,  \* 977
    << <<"flux", "Tc_stdev">>, <<"CFNT_stats30", "Tc_Std">> >>,  \* 978
    << <<"flux", "Tc_Ux_cov">>, <<None, None>> >>,  \* 979
    << <<"flux", "Tc_Uy_cov">>, <<None, None>> >>,  \* 980
    << <<"flux", "Tc_Uz_cov">>, <<None, None>> >>,  \* 981
    << <<"flux", "CO2_mean">>, <<"CFNT_stats30", "CO2_mg_m3_Avg">> >>,  \* 982
    << <<"flux", "H2O_mean">>, <<"CFNT_stats30", "H2O_g_m3_Avg">> >>,  \* 983
    << <<"flux", "amb_press_mean">>, <<"CFNT_stats30", "amb_press_Avg">> >>,  \* 984
    << <<"flux", "Tc_mean">>, <<"CFNT_stats30", "Tc_Avg">> >>,  \* 985
    << <<"flux", "rho_a_mean">>, <<None, None>> >>,  \* 986
    << <<"flux", "Fc_irga">>, <<None, None>> >>,  \* 987
    << <<"flux", "LE_irga">>, <<None, None>> >>,  \* 988
    << <<"flux", "CO2_wpl_LE">>, <<None, None>> >>,  \* 989
    << <<"flux", "CO2_wpl_H">>, <<None, None>> >>,  \* 990
    << <<"flux", "H2O_wpl_LE">>, <<None, None>> >>,  \* 991
    << <<"flux", "H2O_wpl_H">>, <<None, None>> >>,  \* 992
    << <<"flux", "irga_samples_Tot">>, <<None, None>> >>,  \* 993
    << <<"flux", "no_irga_head_Tot">>, <<None, None>> >>,  \* 994
    << <<"flux", "no_new_irga_data_Tot">>, <<None, None>> >>,  \* 995
    << <<"flux", "irga_bad_data_f_Tot">>, <<None, None>> >>,  \* 996
    << <<"flux", "gen_sys_fault_f_Tot">>, <<None, None>> >>,  \* 997
    << <<"flux", "sys_startup_f_Tot">>, <<None, None>> >>,  \* 998
    << <<"flux", "motor_spd_f_Tot">>, <<None, None>> >>,  \* 999
    << <<"flux", "tec_tmpr_f_Tot">>, <<None, None>> >>,  \* 1000
    << <<"flux", "src_pwr_f_Tot">>, <<None, None>> >>,  \* 1001
    << <<"flux", "src_tmpr_f_Tot">>, <<None, None>> >>,  \* 1002
    << <<"flux", "src_curr_f_Tot">>, <<None, None>> >>,  \* 1003
    << <<"flux", "irga_off_f_Tot">>, <<None, None>> >>,  \* 1004
    << <<"flux", "irga_sync_f_Tot">>, <<None, None>> >>,  \* 1005
    << <<"flux", "amb_tmpr_f_Tot">>, <<None, None>> >>,  \* 1006
    << <<"flux", "amb_press_f_Tot">>, <<None, None>> >>,  \* 1007
    << <<"flux", "CO2_I_f_Tot">>, <<None, None>> >>,  \* 1008
    << <<"flux", "CO2_Io_f_Tot">>, <<None, None>> >>,  \* 1009
    << <<"flux", "H2O_I_f_Tot">>, <<None, None>> >>,  \* 1010
    << <<"flux", "H2O_Io_f_Tot">>, <<None, None>> >>,  \* 1011
    << <<"flux", "CO2_Io_var_f_Tot">>, <<None, None>> >>,  \* 1012
    << <<"flux", "H2O_Io_var_f_Tot">>, <<None, None>> >>,  \* 1013
    << <<"flux", "CO2_sig_strgth_f_Tot">>, <<None, None>> >>,  \* 1014
    << <<"flux", "H2O_sig_strgth_f_Tot">>, <<None, None>> >>,  \* 1015
    << <<"flux", "CO2_sig_strgth_mean">>, <<"CFNT_stats30", "CO2_signal_Avg">> >>,  \* 1016
    << <<"flux", "H2O_sig_strgth_mean">>, <<"CFNT_stats30", "H2O_signal_Avg">> >>,  \* 1017
    << <<"flux", "T_hmp_mean">>, <<"CFNT_stats30", "T_hmp_Avg">> >>,  \* 1018
    << <<"flux", "e_hmp_mean">>, <<"CFNT_stats30", "e_hmp_Avg">> >>,  \* 1020
    << <<"flux", "e_sat_hmp_mean">>, <<"CFNT_stats30", "e_sat_hmp_Avg">> >>,  \* 1022
    << <<"flux", "H2O_hmp_mean">>, <<None, None>> >>,  \* 1023
    << <<"flux", "RH_hmp_mean">>, <<"CFNT_stats30", "RH_hmp_Avg">> >>,  \* 1024
    << <<"flux", "rho_a_mean_hmp">>, <<None, None>> >>,  \* 1025
    << <<"flux", "Rn_Avg">>, <<"CFNT_stats30", "">> >>,  \* 1026
    << <<"flux", "Rn_meas_Avg">>, <<"CFNT_stats30", "">> >>,  \* 1027
    << <<"flux", "par_totflx_Tot">>, <<"", "PAR_totflx_Tot">> >>,  \* 1028
    << <<"flux", "PAR_totflx_Tot">>, <<"CFNT_stats30", "">> >>,  \* 1029
    << <<"flux", "par_flxdens_Avg">>, <<"", "PAR_flxdens_Avg">> >>,  \* 1030
    << <<"flux", "PAR_flxdens_Avg">>, <<"CFNT_stats30", "">> >>,  \* 1031
    << <<"flux", "WS_ms_Avg">>, <<None, None>> >>,  \* 1032
    << <<"flux", "WS_ms_WVc(1)">>, <<"", "034b_ws">> >>,  \* 1033
    << <<"flux", "034b_ws">>, <<"CFNT_stats30", "Met1_wnd_spd">> >>,  \* 1034
    << <<"flux", "WS_ms_WVc(2)">>, <<"", "034b_wd">> >>,  \* 1035
    << <<"flux", "034b_wd">>, <<None, None>> >>,  \* 1036
    << <<"flux", "WS_ms_WVc(3)">>, <<"", "034b_stdwd">> >>,  \* 1037
    << <<"flux", "034b_stdwd">>, <<None, None>> >>,  \* 1038
    << <<"flux", "ati_azimuth">>, <<None, None>> >>,  \* 1039
    << <<"flux", "ati_ws">>, <<None, None>> >>,  \* 1040
    << <<"flux", "ati_wd">>, <<None, None>> >>,  \* 1041
    << <<"flux", "ati_stdwd">>, <<None, None>> >>,  \* 1042
    << <<"flux", "atiUavg">>, <<None, None>> >>,  \* 1043
    << <<"flux", "atiVavg">>, <<None, None>> >>,  \* 1044
    << <<"flux", "atiWavg">>, <<None, None>> >>,  \* 1045
    << <<"flux", "atitmpavg">>, <<None, None>> >>,  \* 1046
    << <<"flux", "Rain_mm_Tot">>, <<"CFNT_stats30", "">> >>,  \* 1047
    << <<"flux", "latitude_a">>, <<None, None>> >>,  \* 1049
    << <<"flux", "latitude_b">>, <<None, None>> >>,  \* 1050
    << <<"flux", "longitude_a">>, <<None, None>> >>,  \* 1051
    << <<"flux", "longitude_b">>, <<None, None>> >>,  \* 1052
    << <<"flux", "speed">>, <<None, None>> >>,  \* 1053
    << <<"flux", "course">>, <<None, None>> >>,  \* 1054
    << <<"flux", "magnetic_variation">>, <<None, None>> >>,  \* 1055
    << <<"flux", "fix_quality">>, <<None, None>> >>,  \* 1056
    << <<"flux", "nmbr_satellites">>, <<None, None>> >>,  \* 1057
    << <<"flux", "altitude">>, <<None, None>> >>,  \* 1058
    << <<"flux", "pps">>, <<None, None>> >>,  \* 1059
    << <<"flux", "dt_since_gprmc">>, <<None, None>> >>,  \* 1060
    << <<"flux", "gps_ready">>, <<None, None>> >>,  \* 1061
    << <<"flux", "max_clock_change">>, <<None, None>> >>,  \* 1062
    << <<"flux", "nmbr_clock_change">>, <<None, None>> >>,  \* 1063
    << <<"flux", "panel_tmpr_Avg">>, <<"CFNT_stats30", "">> >>,  \* 1064
    << <<"flux", "batt_volt_Avg">>, <<"CFNT_stats30", "">> >>,  \* 1065
    << <<"flux", "slowsequence_Tot">>, <<None, None>> >>   \* 1066
  >>

\* src/python/definitions.py, lines 545-727: the dict literal bound to table_definitions, as
\* <<table, <<column, ...>>>> in source order.
definitions_table_definitions_literal ==
  <<
    << "tsdata",
       << "TIMESTAMP", "RECORD", "Ux", "Uy", "Uz", "Ts", "diag_sonic", "CO2",
          "H2O", "diag_irga", "amb_tmpr", "amb_press", "CO2_signal",
          "H2O_signal" >> >>,
    << "stats30",
       << "TIMESTAMP", "RECORD", "L", "u_star", "tau", "Fc_wpl", "LE_wpl",
          "Hc", "Ts_Avg", "Ts_Std", "Tc_Avg", "Uz_Std", "wnd_spd",
          "rslt_wnd_spd", "rslt_wnd_dir", "std_wnd_dir", "sonic_uptime",
          "CO2_ppm_Avg", "CO2_mg_m3_Avg", "CO2_mg_m3_Std", "CO2_signal_Avg",
          "H2O_g_kg_Avg", "H2O_g_m3_Avg", "H2O_g_m3_Std", "H2O_signal_Avg",
          "amb_tmpr_Avg", "amb_press_Avg", "irga_uptime", "T_hmp_Avg",
          "RH_hmp_Avg", "e_hmp_Avg", "e_sat_hmp_Avg", "Rn_Avg",
          "Rn_meas_Avg", "PAR_totflx_Tot", "PAR_flxdens_Avg", "Met1_wnd_spd",
          "Met1_rslt_wnd_spd", "Met1_rslt_wnd_dir", "Met1_std_wnd_dir",
          "Rain_mm_Tot", "soil_5TM_ID5_E_Avg", "soil_5TM_ID5_T_Avg",
          "soil_5TM_ID5_VWC_Avg", "soil_5TM_ID6_E_Avg", "soil_5TM_ID6_T_Avg",
          "soil_5TM_ID6_VWC_Avg", "soil_5TM_ID7_E_Avg", "soil_5TM_ID7_T_Avg",
          "soil_5TM_ID7_VWC_Avg", "soil_5TM_ID8_E_Avg", "soil_5TM_ID8_T_Avg",
          "soil_5TM_ID8_VWC_Avg", "soil_5TM_ID9_E_Avg", "soil_5TM_ID9_T_Avg",
          "soil_5TM_ID9_VWC_Avg", "soil_hfp1_heat_flux_Avg",
          "soil_hfp1_sensitivity", "soil_hfp2_heat_flux_Avg",
          "soil_hfp2_sensitivity", "panel_tmpr_Avg", "batt_volt_Avg" >> >>,
    << "site_daily",
       << "TIMESTAMP", "RECORD", "latitude_Med", "longitude_Med",
          "magnetic_variation_Med", "nmbr_satellites_Avg", "altitude_Med",
          "altitude_Avg", "gps_ready_Min", "max_clock_change",
          "nmbr_clock_change", "batt_volt_Min", "batt_volt_TMn",
          "batt_volt_Max", "batt_volt_TMx", "T_hmp_Min", "T_hmp_TMn",
          "T_hmp_Max", "T_hmp_TMx" >> >>,
    << "diagnostics",
       << "TIMESTAMP", "RECORD", "total_scans", "scans_1hz", "scans_5s",
          "skipped_10hz_scans", "skipped_1hz_scans", "skipped_5s_scans",
          "watchdog_errors" >> >>,
    << "site_info",
       << "TIMESTAMP", "RECORD", "UTC_offset", "sonic_azimuth",
          "NRLite2_sens", "LI190SB_sens", "HFP_1_sens", "HFP_2_sens",
          "CompileResults", "CardStatus", "RunSig", "ProgSig",
          "hfp_installed" >> >>,
    << "extra_info",
       << "TIMESTAMP", "RECORD", "Decagon_NDVI_installed",
          "Decagon_PRI_installed", "LGR_n2oco_installed", "lgr_n2o_mult",
          "lgr_n2o_offset", "lgr_co_mult", "lgr_co_offset", "lgr_h2o_mult",
          "lgr_h2o_offset", "Picarro_co2ch4_installed", "pic_co2_mult",
          "pic_co2_offset", "pic_ch4_mult", "pic_ch4_offset", "pic_h2o_mult",
          "pic_h2o_offset" >> >>,
    << "tsdata_extra",
       << "TIMESTAMP", "RECORD", "lgr_n2o", "lgr_co", "lgr_h2o", "pic_co2",
          "pic_ch4", "pic_h2o" >> >>,
    << "stats30_ui",
       << "TIMESTAMP", "RECORD", "dec_ndvi_up1_Avg", "dec_ndvi_up2_Avg",
          "dec_ndvi_dn1_Avg", "dec_ndvi_dn2_Avg", "dec_pri_up1_Avg",
          "dec_pri_up2_Avg", "dec_pri_dn1_Avg", "dec_pri_dn2_Avg",
          "tblcalls_Tot" >> >>,
    << "stats30_6rad",
       << "TIMESTAMP", "RECORD", "dec_6rad_uplook_Avg(1)",
          "dec_6rad_uplook_Avg(2)", "dec_6rad_uplook_Avg(3)",
          "dec_6rad_uplook_Avg(4)", "dec_6rad_uplook_Avg(5)",
          "dec_6rad_uplook_Avg(6)", "dec_6rad_dnlook_Avg(1)",
          "dec_6rad_dnlook_Avg(2)", "dec_6rad_dnlook_Avg(3)",
          "dec_6rad_dnlook_Avg(4)", "dec_6rad_dnlook_Avg(5)",
          "dec_6rad_dnlook_Avg(6)", "tblcalls_Tot" >> >>
  >>

\* src/python/obj2core.py, lines 138-293: the dict literal bound to df_hdr, as
\* <<table, <<column, ...>>>> in source order.
obj2core_df_hdr_literal ==
  <<
    << "tsdata",
       << "TIMESTAMP", "RECORD", "Ux", "Uy", "Uz", "Ts", "diag_sonic", "CO2",
          "H2O", "diag_irga", "amb_tmpr", "amb_press", "CO2_signal",
          "H2O_signal" >> >>,
    << "stats30",
       << "TIMESTAMP", "RECORD", "L", "u_star", "tau", "Fc_wpl", "LE_wpl",
          "Hc", "Ts_Avg", "Ts_Std", "Tc_Avg", "Uz_Std", "wnd_spd",
          "rslt_wnd_spd", "rslt_wnd_dir", "std_wnd_dir", "sonic_uptime",
          "CO2_ppm_Avg", "CO2_mg_m3_Avg", "CO2_mg_m3_Std", "CO2_signal_Avg",
          "H2O_g_kg_Avg", "H2O_g_m3_Avg", "H2O_g_m3_Std", "H2O_signal_Avg",
          "amb_tmpr_Avg", "amb_press_Avg", "irga_uptime", "T_hmp_Avg",
          "RH_hmp_Avg", "e_hmp_Avg", "e_sat_hmp_Avg", "Rn_Avg",
          "Rn_meas_Avg", "PAR_totflx_Tot", "PAR_flxdens_Avg", "Met1_wnd_spd",
          "Met1_rslt_wnd_spd", "Met1_rslt_wnd_dir", "Met1_std_wnd_dir",
          "Rain_mm_Tot", "soil_5TM_ID5_E_Avg", "soil_5TM_ID5_T_Avg",
          "soil_5TM_ID5_VWC_Avg", "soil_5TM_ID6_E_Avg", "soil_5TM_ID6_T_Avg",
          "soil_5TM_ID6_VWC_Avg", "soil_5TM_ID7_E_Avg", "soil_5TM_ID7_T_Avg",
          "soil_5TM_ID7_VWC_Avg", "soil_5TM_ID8_E_Avg", "soil_5TM_ID8_T_Avg",
          "soil_5TM_ID8_VWC_Avg", "soil_5TM_ID9_E_Avg", "soil_5TM_ID9_T_Avg",
          "soil_5TM_ID9_VWC_Avg", "panel_tmpr_Avg", "batt_volt_Avg" >> >>,
    << "stats30_6rad",
       << "TIMESTAMP", "RECORD", "dec_6rad_uplook_Avg(1)",
          "dec_6rad_uplook_Avg(2)", "dec_6rad_uplook_Avg(3)",
          "dec_6rad_uplook_Avg(4)", "dec_6rad_uplook_Avg(5)",
          "dec_6rad_uplook_Avg(6)", "dec_6rad_dnlook_Avg(1)",
          "dec_6rad_dnlook_Avg(2)", "dec_6rad_dnlook_Avg(3)",
          "dec_6rad_dnlook_Avg(4)", "dec_6rad_dnlook_Avg(5)",
          "dec_6rad_dnlook_Avg(6)", "tblcalls_Tot" >> >>,
    << "stats30_hfp",
       << "TIMESTAMP", "RECORD", "soil_hfp1_heat_flux_Avg",
          "soil_hfp1_sensitivity", "soil_hfp2_heat_flux_Avg",
          "soil_hfp2_sensitivity", "hfp1_samples_Tot", "hfp2_samples_Tot",
          "tblcalls_Tot" >> >>,
    << "site_daily",
       << "TIMESTAMP", "RECORD", "latitude_Med", "longitude_Med",
          "magnetic_variation_Med", "nmbr_satellites_Avg", "altitude_Med",
          "altitude_Avg", "gps_ready_Min", "max_clock_change",
          "nmbr_clock_change" >> >>,
    << "site_info",
       << "TIMESTAMP", "RECORD", "UTC_offset", "sonic_azimuth",
          "NRLite2_sens", "LI190SB_sens", "HFP_1_sens", "HFP_2_sens",
          "CompileResults", "CardStatus", "RunSig", "ProgSig",
          "Dec_6rad_installed", "LGR_n2o_co_installed",
          "Pic_co2_ch4_installed", "hfp_installed" >> >>,
    << "tsdata_n2o_co",
       << "TIMESTAMP", "RECORD", "lgr_n2o", "lgr_co" >> >>,
    << "stats30_n2o_co",
       << "TIMESTAMP", "RECORD", "lgr_n2o_Avg", "lgr_n2o_Std", "lgr_co_Avg",
          "lgr_co_Std", "lgr_n2o_co_uptime" >> >>,
    << "stats5_n2o_co",
       << "TIMESTAMP", "RECORD", "lgr_n2o_Avg", "lgr_n2o_Std", "lgr_co_Avg",
          "lgr_co_Std", "lgr_n2o_co_uptime" >> >>
  >>

(***************************************************************************)
(* Building the module-level objects from the literals.                    *)
(***************************************************************************)

\* A dict display {k1: v1, k2: v2, ...}: a later item with an equal key
\* replaces the earlier one.
dict(items) ==
  LET keys == { items[i][1] : i \in DOMAIN items }
      last(k) == CHOOSE i \in DOMAIN items :
                   /\ items[i][1] = k
                   /\ \A j \in DOMAIN items : j > i => items[j][1] # k
  IN  [k \in keys |-> items[last(k)][2]]

\* d[dst] = copy(d[src])
copy_item(d, dst, src) ==
  [t \in DOMAIN d \cup {dst} |-> IF t = dst THEN d[src] ELSE d[t]]

\* definitions.col_alias with the item of line 1293 missing: the key
\* ('flux', 'L') was retired to ('CFNT_stats30', 'L') and the new key was
\* not added.
definitions_col_alias_item_missing ==
  dict(SelectSeq(definitions_col_alias_items,
                 LAMBDA it : it[1] # <<"CFNT_stats30", "L">>))

\* definitions.col_alias
definitions_col_alias == dict(definitions_col_alias_items)

\* obj2core.col_alias
obj2core_col_alias == dict(obj2core_col_alias_items)

\* definitions.table_definitions with line 732 copying the wrong list:
\* table_definitions['stats5_ui'] = copy(table_definitions['stats30'])
definitions_table_definitions_wrong_copy ==
  copy_item(copy_item(copy_item(dict(definitions_table_definitions_literal),
      "stats5", "stats30"), "stats5_6rad", "stats30_6rad"),
      "stats5_ui", "stats30")

\* definitions.table_definitions after the three copies of lines 730-732
definitions_table_definitions ==
  copy_item(copy_item(copy_item(dict(definitions_table_definitions_literal),
      "stats5", "stats30"), "stats5_6rad", "stats30_6rad"),
      "stats5_ui", "stats30_ui")

\* obj2core.df_hdr after the three copies of lines 296-298
obj2core_df_hdr ==
  copy_item(copy_item(copy_item(dict(obj2core_df_hdr_literal),
      "stats5", "stats30"), "stats5_6rad", "stats30_6rad"),
      "stats5_hfp", "stats30_hfp")

\* The (table, column) pairs the two nested loops
\*   for tbl in table_definitions: for col in table_definitions[tbl]:
\* run through.
header_entries(hdr) ==
  UNION { { <<t, hdr[t][i]>> : i \in DOMAIN hdr[t] } : t \in DOMAIN hdr }

(***************************************************************************)
(* current_names: one invocation.                                          *)
(***************************************************************************)

\* What one invocation of current_names does with its arguments: it raises,
\* it returns a tuple, or it calls itself with new arguments.
Raise(e)    == [kind |-> "raise",   exc |-> e,  value |-> <<>>]
Return(v)   == [kind |-> "return",  exc |-> "", value |-> v]
Recurse(a)  == [kind |-> "recurse", exc |-> "", value |-> a]

\* Variants of definitions.current_names with one line changed, used to
\* show that the properties below depend on that line.

\* line 408 calls current_names(table, column): the blank-table branch
\* looks the same key up again
definitions_current_names_body_same_key(alias, table, column) ==
  IF <<table, column>> \notin DOMAIN alias
  THEN Raise("ColumnNotFoundError")
  ELSE LET tbl == alias[<<table, column>>][1]
           col == alias[<<table, column>>][2]
       IN  IF <<tbl, col>> = <<None, None>> THEN Return(<<None, None>>)
           ELSE IF <<tbl, col>> = <<"", "">> THEN Return(<<table, column>>)
           ELSE IF tbl = "" THEN Recurse(<<table, column>>)
           ELSE IF col = "" THEN Recurse(<<tbl, column>>)
           ELSE Recurse(<<tbl, col>>)

\* line 406 returns (tbl, col): the stored value instead of the arguments
definitions_current_names_body_returns_value(alias, table, column) ==
  IF <<table, column>> \notin DOMAIN alias
  THEN Raise("ColumnNotFoundError")
  ELSE LET tbl == alias[<<table, column>>][1]
           col == alias[<<table, column>>][2]
       IN  IF <<tbl, col>> = <<None, None>> THEN Return(<<None, None>>)
           ELSE IF <<tbl, col>> = <<"", "">> THEN Return(<<tbl, col>>)
           ELSE IF tbl = "" THEN Recurse(<<table, col>>)
           ELSE IF col = "" THEN Recurse(<<tbl, column>>)
           ELSE Recurse(<<tbl, col>>)

\* line 410 calls current_names(tbl, col): the blank column is passed on
definitions_current_names_body_blank_column(alias, table, column) ==
  IF <<table, column>> \notin DOMAIN alias
  THEN Raise("ColumnNotFoundError")
  ELSE LET tbl == alias[<<table, column>>][1]
           col == alias[<<table, column>>][2]
       IN  IF <<tbl, col>> = <<None, None>> THEN Return(<<None, None>>)
           ELSE IF <<tbl, col>> = <<"", "">> THEN Return(<<table, column>>)
           ELSE IF tbl = "" THEN Recurse(<<table, col>>)
           ELSE IF col = "" THEN Recurse(<<tbl, col>>)
           ELSE Recurse(<<tbl, col>>)

\* line 412 calls current_names(table, col): the new table is dropped
definitions_current_names_body_keeps_table(alias, table, column) ==
  IF <<table, column>> \notin DOMAIN alias
  THEN Raise("ColumnNotFoundError")
  ELSE LET tbl == alias[<<table, column>>][1]
           col == alias[<<table, column>>][2]
       IN  IF <<tbl, col>> = <<None, None>> THEN Return(<<None, None>>)
           ELSE IF <<tbl, col>> = <<"", "">> THEN Return(<<table, column>>)
           ELSE IF tbl = "" THEN Recurse(<<table, col>>)
           ELSE IF col = "" THEN Recurse(<<tbl, column>>)
           ELSE Recurse(<<table, col>>)

\* line 398 reads col_alias.get((table, column), (None, None)): a missing
\* key is taken for a dropped column
definitions_current_names_body_get_default(alias, table, column) ==
  LET v   == IF <<table, column>> \in DOMAIN alias
             THEN alias[<<table, column>>] ELSE <<None, None>>
      tbl == v[1]
      col == v[2]
  IN  IF <<tbl, col>> = <<None, None>> THEN Return(<<None, None>>)
      ELSE IF <<tbl, col>> = <<"", "">> THEN Return(<<table, column>>)
      ELSE IF tbl = "" THEN Recurse(<<table, col>>)
      ELSE IF col = "" THEN Recurse(<<tbl, column>>)
      ELSE Recurse(<<tbl, col>>)

\* lines 403-406 test ('', '') first and (None, None) with "or": a dropped
\* column is returned as if current
definitions_current_names_body_retired_current(alias, table, column) ==
  IF <<table, column>> \notin DOMAIN alias
  THEN Raise("ColumnNotFoundError")
  ELSE LET tbl == alias[<<table, column>>][1]
           col == alias[<<table, column>>][2]
       IN  IF <<tbl, col>> = <<"", "">> \/ <<tbl, col>> = <<None, None>>
           THEN Return(<<table, column>>)
           ELSE IF tbl = "" THEN Recurse(<<table, col>>)
           ELSE IF col = "" THEN Recurse(<<tbl, column>>)
           ELSE Recurse(<<tbl, col>>)

\* line 405 tests (tbl, col) == (table, column) as well: a value equal to
\* its own key is treated as current
definitions_current_names_body_fixed_point(alias, table, column) ==
  IF <<table, column>> \notin DOMAIN alias
  THEN Raise("ColumnNotFoundError")
  ELSE LET tbl == alias[<<table, column>>][1]
           col == alias[<<table, column>>][2]
       IN  IF <<tbl, col>> = <<None, None>> THEN Return(<<None, None>>)
           ELSE IF <<tbl, col>> = <<"", "">> \/ <<tbl, col>> = <<table, column>>
           THEN Return(<<table, column>>)
           ELSE IF tbl = "" THEN Recurse(<<table, col>>)
           ELSE IF col = "" THEN Recurse(<<tbl, column>>)
           ELSE Recurse(<<tbl, col>>)

\* definitions.current_names, lines 397-412
definitions_current_names_body(alias, table, column) ==
  IF <<table, column>> \notin DOMAIN alias
  THEN Raise("ColumnNotFoundError")
  ELSE LET tbl == alias[<<table, column>>][1]
           col == alias[<<table, column>>][2]
       IN  IF <<tbl, col>> = <<None, None>> THEN Return(<<None, None>>)
           ELSE IF <<tbl, col>> = <<"", "">> THEN Return(<<table, column>>)
           ELSE IF tbl = "" THEN Recurse(<<table, col>>)
           ELSE IF col = "" THEN Recurse(<<tbl, column>>)
           ELSE Recurse(<<tbl, col>>)

\* obj2core.current_names, lines 1096-1106: the subscript itself raises
\* KeyError
obj2core_current_names_body(alias, table, column) ==
  IF <<table, column>> \notin DOMAIN alias
  THEN Raise("KeyError")
  ELSE LET tbl == alias[<<table, column>>][1]
           col == alias[<<table, column>>][2]
       IN  IF <<tbl, col>> = <<None, None>> THEN Return(<<None, None>>)
           ELSE IF <<tbl, col>> = <<"", "">> THEN Return(<<table, column>>)
           ELSE IF tbl = "" THEN Recurse(<<table, col>>)
           ELSE IF col = "" THEN Recurse(<<tbl, column>>)
           ELSE Recurse(<<tbl, col>>)

current_names_body(mod, alias, table, column) ==
  IF mod = "definitions"
  THEN definitions_current_names_body(alias, table, column)
  ELSE obj2core_current_names_body(alias, table, column)

\* The interpreter's limit on nested calls (RuntimeError: maximum recursion
\* depth exceeded), scaled down; no shipped chain comes near it.
recursion_limit == 8

\* current_names(table, column) entered as the depth-th nested invocation:
\* every branch that recurses is "return current_names(...)", so the result
\* or exception of the innermost invocation is that of the outermost.
RECURSIVE current_names_at(_, _, _, _, _)
current_names_at(mod, alias, table, column, depth) ==
  LET b == current_names_body(mod, alias, table, column)
  IN  IF b.kind # "recurse" THEN b
      ELSE IF depth >= recursion_limit THEN Raise("RuntimeError")
      ELSE current_names_at(mod, alias, b.value[1], b.value[2], depth + 1)

current_names(mod, alias, table, column) ==
  current_names_at(mod, alias, table, column, 1)

\* The classes an exception is an instance of: ColumnNotFoundError derives
\* from Exception only (definitions.py line 414); the others are built in.
exception_classes(exc) ==
  CASE exc = "ColumnNotFoundError" -> {"ColumnNotFoundError", "Exception"}
    [] exc = "KeyError" -> {"KeyError", "LookupError", "Exception"}
    [] OTHER -> {exc, "Exception"}

\* Whether "except cls:" handles exc.
except_clause(cls, exc) == cls \in exception_classes(exc)

(***************************************************************************)
(* The consistency checkers.  Each is a loop over the table (in sorted     *)
(* order) or over the header definitions (in dict order), one              *)
(* current_names call per entry; the result of the run is the returned     *)
(* truth value with the entries reported, or the exception that left the   *)
(* loop.  When more than one exception type could leave the loop, which    *)
(* one does depends on the iteration order, and every one is allowed.      *)
(***************************************************************************)

NoVerdict ==
  [op |-> "none", kind |-> "none", exc |-> "", value |-> FALSE,
   warnings |-> {}]

\* definitions._verify_col_alias (lines 1699-1720) and
\* obj2core.verify_colalias (lines 1138-1158): the same text
verify_col_alias(mod, alias) ==
  LET res(k)   == current_names(mod, alias, k[1], k[2])
      raising  == { k \in DOMAIN alias : res(k).kind = "raise" }
      errs     == { k \in raising : except_clause("KeyError", res(k).exc) }
      escaping == { res(k).exc : k \in raising \ errs }
  IN  IF escaping # {}
      THEN { [op |-> "verify_col_alias", kind |-> "raise", exc |-> e,
              value |-> FALSE, warnings |-> {}] : e \in escaping }
      ELSE { [op |-> "verify_col_alias", kind |-> "return", exc |-> "",
              value |-> (errs = {}), warnings |-> errs] }

\* definitions._verify_table_definitions (lines 1723-1748) and
\* obj2core.verify_headers (lines 1161-1185): the same text
verify_table_definitions(mod, alias, hdr) ==
  LET res(e)   == current_names(mod, alias, e[1], e[2])
      entries  == header_entries(hdr)
      raising  == { e \in entries : res(e).kind = "raise" }
      notfound == { e \in raising : except_clause("KeyError", res(e).exc) }
      escaping == { res(e).exc : e \in raising \ notfound }
      mismatch == { e \in entries \ raising :
                      res(e).value[1] # e[1] \/ res(e).value[2] # e[2] }
  IN  IF escaping # {}
      THEN { [op |-> "verify_table_definitions", kind |-> "raise",
              exc |-> x, value |-> FALSE, warnings |-> {}] : x \in escaping }
      ELSE { [op |-> "verify_table_definitions", kind |-> "return",
              exc |-> "", value |-> (notfound \cup mismatch = {}),
              warnings |-> notfound \cup mismatch] }

(***************************************************************************)
(* The interpreter with one of the two modules imported.                   *)
(***************************************************************************)

VARIABLES
  module,     \* "definitions" or "obj2core": the module imported
  col_alias,  \* its col_alias
  headers,    \* its table_definitions (definitions) or df_hdr (obj2core)
  pc,         \* "idle", "running", "returned", "raised", "verified"
  call,       \* the (table, column) the caller passed to current_names
  frames,     \* the arguments of the nested invocations, outermost first
  lookups,    \* the keys subscripted into col_alias by this call, in order
  result,     \* how the call ended: Return(..) or Raise(..)
  verdict,    \* how the last checker run ended
  threads,    \* the current_names call of each concurrent thread
  run         \* a run of one of the photo-transfer scripts

vars ==
  <<module, col_alias, headers, pc, call, frames, lookups, result, verdict,
    threads, run>>

NoCall == <<>>
NoResult == [kind |-> "none", exc |-> "", value |-> <<>>]

\* Threads that call current_names at the same time.
Threads == {"t1", "t2"}

\* A thread that has not called yet.
IdleThread ==
  [pc |-> "idle", call |-> NoCall, frames |-> <<>>, result |-> NoResult]

\* No script is run.
NoRun == [script |-> "none"]

\* Names for arbitrary small tables.
AnyTables  == {"a", "b"}
AnyColumns == {"x", "y"}
AnyKeys    == { <<"a", "x">>, <<"a", "y">>, <<"b", "y">> }
AnyValues  == ({None, ""} \cup AnyTables) \X ({None, ""} \cup AnyColumns)

\* The most items an arbitrary table holds.
MaxItems == 2

AnyAlias ==
  UNION { [K -> AnyValues] :
            K \in { S \in SUBSET AnyKeys : Cardinality(S) <= MaxItems } }

AnyHeaders ==
  { <<>>,
    [t \in {"a"} |-> <<"x">>],
    [t \in {"a"} |-> <<"x", "y">>],
    [t \in {"a", "b"} |-> <<"y">>] }

\* The pairs a caller passes: every key of the table and pairs that are
\* no key of the shipped tables.
Inputs == DOMAIN col_alias \cup AnyKeys \cup { <<"bogus_table", "x">> }

InitCall ==
  /\ pc = "idle"
  /\ call = NoCall
  /\ frames = <<>>
  /\ lookups = <<>>
  /\ result = NoResult
  /\ verdict = NoVerdict
  /\ threads = [t \in Threads |-> IdleThread]
  /\ run = NoRun

\* import definitions  /  import obj2core
Init ==
  /\ module \in {"definitions", "obj2core"}
  /\ col_alias = IF module = "definitions" THEN definitions_col_alias
                 ELSE obj2core_col_alias
  /\ headers = IF module = "definitions" THEN definitions_table_definitions
               ELSE obj2core_df_hdr
  /\ InitCall

\* Either module's code over an arbitrary small table and header dict.
InitAny ==
  /\ module \in {"definitions", "obj2core"}
  /\ col_alias \in AnyAlias
  /\ headers \in AnyHeaders
  /\ InitCall

\* The caller calls current_names(table, column).
Call(table, column) ==
  /\ pc = "idle"
  /\ pc' = "running"
  /\ call' = <<table, column>>
  /\ frames' = << <<table, column>> >>
  /\ lookups' = <<>>
  /\ result' = NoResult
  /\ UNCHANGED <<threads, run, module, col_alias, headers, verdict>>

\* Invoke with the result of a finished chain stored back under the
\* caller's key (col_alias[(table, column)] = result, a cache).
Invoke_caches_result ==
  /\ pc = "running"
  /\ LET top == frames[Len(frames)]
         b   == current_names_body(module, col_alias, top[1], top[2])
         end == IF b.kind = "recurse" THEN Raise("RuntimeError") ELSE b
     IN  /\ lookups' = Append(lookups, top)
         /\ IF b.kind = "recurse" /\ Len(frames) < recursion_limit
            THEN /\ frames' = Append(frames, b.value)
                 /\ UNCHANGED <<pc, result, col_alias>>
            ELSE /\ frames' = <<>>
                 /\ result' = end
                 /\ pc' = IF end.kind = "return" THEN "returned" ELSE "raised"
                 /\ col_alias' =
                      IF end.kind = "return"
                      THEN [k \in DOMAIN col_alias \cup {call} |->
                              IF k = call THEN end.value ELSE col_alias[k]]
                      ELSE col_alias
  /\ UNCHANGED <<threads, run, module, headers, call, verdict>>

\* Invoke with the names returned at the end of a chain taken from the
\* outermost invocation instead of the innermost (line 406 reached with
\* table and column still those of the caller).
Invoke_returns_caller_names ==
  /\ pc = "running"
  /\ LET top == frames[Len(frames)]
         b   == current_names_body(module, col_alias, top[1], top[2])
         end == IF b.kind = "recurse" THEN Raise("RuntimeError")
                ELSE IF b.kind = "return" /\ b.value = top THEN Return(call)
                ELSE b
     IN  /\ lookups' = Append(lookups, top)
         /\ IF b.kind = "recurse" /\ Len(frames) < recursion_limit
            THEN /\ frames' = Append(frames, b.value)
                 /\ UNCHANGED <<pc, result>>
            ELSE /\ frames' = <<>>
                 /\ result' = end
                 /\ pc' = IF end.kind = "return" THEN "returned" ELSE "raised"
  /\ UNCHANGED <<threads, run, module, col_alias, headers, call, verdict>>

\* Invoke with a guard on pairs already visited: an invocation about to
\* call itself with arguments some enclosing invocation already has returns
\* its own (table, column) instead.
Invoke_cycle_guard ==
  /\ pc = "running"
  /\ LET top == frames[Len(frames)]
         b0  == current_names_body(module, col_alias, top[1], top[2])
         b   == IF b0.kind = "recurse"
                   /\ \E i \in DOMAIN frames : frames[i] = b0.value
                THEN Return(top) ELSE b0
         end == IF b.kind = "recurse" THEN Raise("RuntimeError") ELSE b
     IN  /\ lookups' = Append(lookups, top)
         /\ IF b.kind = "recurse" /\ Len(frames) < recursion_limit
            THEN /\ frames' = Append(frames, b.value)
                 /\ UNCHANGED <<pc, result>>
            ELSE /\ frames' = <<>>
                 /\ result' = end
                 /\ pc' = IF end.kind = "return" THEN "returned" ELSE "raised"
  /\ UNCHANGED <<threads, run, module, col_alias, headers, call, verdict>>

\* The innermost invocation runs its body: it calls itself, or it ends
\* and with it every invocation below it.
Invoke ==
  /\ pc = "running"
  /\ LET top == frames[Len(frames)]
         b   == current_names_body(module, col_alias, top[1], top[2])
         end == IF b.kind = "recurse" THEN Raise("RuntimeError") ELSE b
     IN  /\ lookups' = Append(lookups, top)
         /\ IF b.kind = "recurse" /\ Len(frames) < recursion_limit
            THEN /\ frames' = Append(frames, b.value)
                 /\ UNCHANGED <<pc, result>>
            ELSE /\ frames' = <<>>
                 /\ result' = end
                 /\ pc' = IF end.kind = "return" THEN "returned" ELSE "raised"
  /\ UNCHANGED <<threads, run, module, col_alias, headers, call, verdict>>

\* python definitions.py, answering "y" to the first prompt
VerifyColAlias ==
  /\ pc = "idle"
  /\ \E v \in verify_col_alias(module, col_alias) : verdict' = v
  /\ pc' = "verified"
  /\ UNCHANGED <<threads, run, module, col_alias, headers, call, frames, lookups, result>>

\* python definitions.py, answering "y" to the second prompt
VerifyTableDefinitions ==
  /\ pc = "idle"
  /\ \E v \in verify_table_definitions(module, col_alias, headers) :
       verdict' = v
  /\ pc' = "verified"
  /\ UNCHANGED <<threads, run, module, col_alias, headers, call, frames, lookups, result>>

\* The caller has taken the result (or handled the exception) and goes on.
Continue ==
  /\ pc \in {"returned", "raised", "verified"}
  /\ pc' = "idle"
  /\ call' = NoCall
  /\ frames' = <<>>
  /\ lookups' = <<>>
  /\ result' = NoResult
  /\ verdict' = NoVerdict
  /\ UNCHANGED <<threads, run, module, col_alias, headers>>

Next ==
  \/ \E k \in Inputs : Call(k[1], k[2])
  \/ Invoke
  \/ VerifyColAlias
  \/ VerifyTableDefinitions
  \/ Continue

Spec == Init /\ [][Next]_vars

SpecAny == InitAny /\ [][Next]_vars

(***************************************************************************)
(* Several threads calling current_names on the one imported module.  Each *)
(* invocation's table, column, tbl and col are locals of that invocation;  *)
(* col_alias is the only object the threads share.  The interpreter may    *)
(* switch threads between any two invocations.                             *)
(***************************************************************************)

\* Thread t calls current_names(table, column).
ThreadCall(t, table, column) ==
  /\ threads[t].pc = "idle"
  /\ threads' = [threads EXCEPT ![t] =
                   [pc |-> "running", call |-> <<table, column>>,
                    frames |-> << <<table, column>> >>, result |-> NoResult]]
  /\ UNCHANGED <<module, col_alias, headers, pc, call, frames, lookups,
                 result, verdict, run>>

\* ThreadInvoke with the arguments of the invocation to run next kept in
\* one module-level variable (here: frames) instead of in locals.
ThreadInvoke_shared_arguments(t) ==
  /\ threads[t].pc = "running"
  /\ LET th  == threads[t]
         top == IF frames # <<>> THEN frames[1] ELSE th.frames[Len(th.frames)]
         b   == current_names_body(module, col_alias, top[1], top[2])
         end == IF b.kind = "recurse" THEN Raise("RuntimeError") ELSE b
     IN  IF b.kind = "recurse" /\ Len(th.frames) < recursion_limit
         THEN /\ threads' = [threads EXCEPT
                               ![t].frames = Append(th.frames, b.value)]
              /\ frames' = << b.value >>
         ELSE /\ threads' = [threads EXCEPT
                   ![t] = [pc |-> IF end.kind = "return" THEN "returned"
                                  ELSE "raised",
                           call |-> th.call, frames |-> <<>>,
                           result |-> end]]
              /\ frames' = <<>>
  /\ UNCHANGED <<module, col_alias, headers, pc, call, lookups,
                 result, verdict, run>>

\* The innermost invocation of thread t runs its body.
ThreadInvoke(t) ==
  /\ threads[t].pc = "running"
  /\ LET th  == threads[t]
         top == th.frames[Len(th.frames)]
         b   == current_names_body(module, col_alias, top[1], top[2])
         end == IF b.kind = "recurse" THEN Raise("RuntimeError") ELSE b
     IN  IF b.kind = "recurse" /\ Len(th.frames) < recursion_limit
         THEN threads' = [threads EXCEPT
                            ![t].frames = Append(th.frames, b.value)]
         ELSE threads' = [threads EXCEPT
                ![t] = [pc |-> IF end.kind = "return" THEN "returned"
                               ELSE "raised",
                        call |-> th.call, frames |-> <<>>,
                        result |-> end]]
  /\ UNCHANGED <<module, col_alias, headers, pc, call, frames, lookups,
                 result, verdict, run>>

\* The pairs the threads pass: two pairs whose chains can run into each
\* other (and into ('b', 'y')) in the small tables.
ThreadInputs == { <<"a", "x">>, <<"a", "y">> }

InitThreads ==
  /\ module \in {"definitions", "obj2core"}
  /\ col_alias \in AnyAlias
  /\ headers = <<>>
  /\ InitCall

NextThreads ==
  \E t \in Threads :
    \/ \E k \in ThreadInputs : ThreadCall(t, k[1], k[2])
    \/ ThreadInvoke(t)

SpecThreads == InitThreads /\ [][NextThreads]_vars

(***************************************************************************)
(* The photo-transfer scripts python/transfer_timelapse_photos.py and      *)
(* timelapsecam/timelapse_file_mover.py, run from the command line.  The   *)
(* environment (operating system, installed programs, the card's           *)
(* directory) is fixed when the run starts; the user's answers and the     *)
(* exit statuses of the external programs are chosen at each step.  An     *)
(* exception no handler catches ends the interpreter with a traceback and  *)
(* exit status 1.                                                          *)
(***************************************************************************)

\* transfer_timelapse_photos.py lines 27-33, timelapse_file_mover.py
\* lines 49-56
RC_NOERRS == 0
RC_NOSRCDIR == 1
RC_NOFILES == 2
RC_NOANTEXE == 3
RC_NOBATCH == 4
RC_ANTERR == 5
RC_CPYERR == 6
RC_ENVERR == 7

Scripts == {"transfer_timelapse_photos", "timelapse_file_mover"}

\* Exit statuses an external program may end with.
ToolStatus == {0, 1, 4}

\* What the user types at the "Choose #" prompt: a site number, o, q,
\* or something else.
Choices == {"1", "o", "q", "z"}

\* What the user types at the yes/no and continue prompts.
Answers == {"y", "c", ""}

\* sys.exit(code)
sys_exit(r, code) ==
  [r EXCEPT !.at = "exited", !.exit_code = code, !.exit_by = "sys.exit"]

\* An exception propagates out of the script.
uncaught(r, exc) ==
  [r EXCEPT !.at = "exited", !.exit_code = 1, !.exit_by = exc]

\* subprocess.check_call(cmd): returns 0 when the command exits with 0 and
\* raises CalledProcessError otherwise.
check_call(status) ==
  IF status = 0 THEN Return(0) ELSE Raise("CalledProcessError")

\* Module-level code run before the __main__ block.
\* transfer_timelapse_photos.py lines 45-54; timelapse_file_mover.py lines
\* 29-70 only bind names and define functions.
import_script(r) ==
  IF r.script = "transfer_timelapse_photos" /\ ~r.antexe
  THEN sys_exit(r, RC_NOANTEXE)
  ELSE [r EXCEPT !.at = "main"]

\* transfer_timelapse_photos.py lines 82-87, timelapse_file_mover.py 74-79
enter_main(r) ==
  IF ~r.nt THEN sys_exit(r, RC_ENVERR) ELSE [r EXCEPT !.at = "listdir"]

\* timelapse_file_mover.py lines 83-88 with the listing wrapped as in
\* transfer_timelapse_photos.py but leaving with RC_NOFILES
list_files_wrong_code(r) ==
  IF r.srcdir = "missing" THEN sys_exit(r, RC_NOFILES)
  ELSE IF r.srcdir = "empty" THEN sys_exit(r, RC_NOFILES)
  ELSE [r EXCEPT !.at = "choose"]

\* transfer_timelapse_photos.py lines 91-101 (os.listdir inside
\* try/except WindowsError), timelapse_file_mover.py lines 83-88 (os.listdir
\* outside any try)
list_files(r) ==
  IF r.srcdir = "missing"
  THEN IF r.script = "transfer_timelapse_photos"
       THEN sys_exit(r, RC_NOSRCDIR)
       ELSE uncaught(r, "WindowsError")
  ELSE IF r.srcdir = "empty" THEN sys_exit(r, RC_NOFILES)
  ELSE [r EXCEPT !.at = "choose"]

\* transfer_timelapse_photos.py lines 106-117, timelapse_file_mover.py
\* lines 96-108 with find_batch_file (lines 64-70): one pass of the while
\* loop and what follows it when the loop ends
choose(r, choice) ==
  IF choice = "o" THEN [r EXCEPT !.done = r.done \cup {"open"}]
  ELSE IF choice = "q"
  THEN sys_exit(r, RC_NOERRS)
  ELSE IF choice # "1" THEN r
  ELSE IF r.script = "timelapse_file_mover" /\ ~r.batch
  THEN sys_exit(r, RC_NOBATCH)
  ELSE [r EXCEPT !.at = "confirm"]

\* transfer_timelapse_photos.py lines 117-132 (any answer continues; the
\* target and temporary directories and the batch file are made),
\* timelapse_file_mover.py lines 110-114
confirm(r, answer, made) ==
  IF r.script = "transfer_timelapse_photos"
  THEN IF made
       THEN [r EXCEPT !.at = "copy",
                      !.done = r.done \cup {"makedirs", "write_batch"}]
       ELSE uncaught(r, "OSError")
  ELSE IF answer = "c" THEN [r EXCEPT !.at = "rename"]
  ELSE sys_exit(r, RC_NOERRS)

\* transfer_timelapse_photos.py lines 134-140, timelapse_file_mover.py
\* lines 126-134
copy_files(r, status) ==
  LET rc == check_call(status)
      r1 == [r EXCEPT !.done = r.done \cup {"xcopy"},
                      !.failed = IF status = 0 THEN r.failed ELSE "xcopy"]
  IN  IF rc.kind = "raise" THEN uncaught(r1, rc.exc)
      ELSE IF rc.value # 0 THEN sys_exit(r1, RC_CPYERR)
      ELSE [r1 EXCEPT !.at = IF r.script = "transfer_timelapse_photos"
                             THEN "rename" ELSE "delete"]

\* transfer_timelapse_photos.py lines 144-153, timelapse_file_mover.py
\* lines 116-124
rename_files(r, status) ==
  LET rc == check_call(status)
      r1 == [r EXCEPT !.done = r.done \cup {"renamer"},
                      !.failed = IF status = 0 THEN r.failed ELSE "renamer"]
  IN  IF rc.kind = "raise" THEN uncaught(r1, rc.exc)
      ELSE IF rc.value # 0 THEN sys_exit(r1, RC_ANTERR)
      ELSE [r1 EXCEPT !.at = IF r.script = "transfer_timelapse_photos"
                             THEN "move" ELSE "copy"]

\* The renamed files glob finds in the temporary directory, in its order.
TmpFiles == <<"f1", "f2", "f3">>

\* What the user types at the overwrite prompt.
OverwriteAnswers == {"y", "Y", "a", "A", "n", ""}

\* str.lower
lower(str) ==
  CASE str = "Y" -> "y"
    [] str = "A" -> "a"
    [] OTHER -> str

\* transfer_timelapse_photos.py lines 153-159: the batch file is removed
\* and the loop over the renamed files is set up; dest is the set of their
\* names that files in the target directory already have
move_files(r, dest) ==
  [r EXCEPT !.at = "moving",
            !.done = r.done \cup {"remove_batch"},
            !.todo = TmpFiles,
            !.tmp = { TmpFiles[i] : i \in DOMAIN TmpFiles },
            !.dest = dest,
            !.overwrite = FALSE,
            !.confirm = "",
            !.log = <<>>]

\* One pass of the loop with the prompt shown before every file that exists
\* at the destination until the first answer, and not after it (the test
\* of line 166 made on firstrenamefound).
move_file_asks_once(r, answer, renamed) ==
  LET fname   == Head(r.todo)
      exists  == fname \in r.dest
      asks    == exists /\ ~r.overwrite /\ r.log = <<>>
      reply   == IF asks THEN answer ELSE r.confirm
      accept  == r.overwrite \/ lower(reply) \in {"y", "a"}
      removes == exists /\ accept
      moves   == (~exists \/ accept) /\ renamed
  IN  [r EXCEPT
         !.todo = Tail(r.todo),
         !.confirm = reply,
         !.overwrite = IF removes /\ lower(reply) = "a" THEN TRUE
                       ELSE r.overwrite,
         !.dest = IF moves THEN r.dest \cup {fname}
                  ELSE IF removes THEN r.dest \ {fname}
                  ELSE r.dest,
         !.tmp = IF moves THEN r.tmp \ {fname} ELSE r.tmp,
         !.log = Append(r.log,
                        [file |-> fname, existed |-> exists,
                         prompted |-> asks,
                         answer |-> IF asks THEN answer ELSE "",
                         removed |-> removes, moved |-> moves])]

\* transfer_timelapse_photos.py lines 160-180: one pass of the loop, for the
\* next file of the glob list; renamed tells whether os.rename succeeds
move_file(r, answer, renamed) ==
  LET fname   == Head(r.todo)
      exists  == fname \in r.dest
      asks    == exists /\ ~r.overwrite
      reply   == IF asks THEN answer ELSE r.confirm
      accept  == r.overwrite \/ lower(reply) \in {"y", "a"}
      removes == exists /\ accept
      moves   == (~exists \/ accept) /\ renamed
  IN  [r EXCEPT
         !.todo = Tail(r.todo),
         !.confirm = reply,
         !.overwrite = IF removes /\ lower(reply) = "a" THEN TRUE
                       ELSE r.overwrite,
         !.dest = IF moves THEN r.dest \cup {fname}
                  ELSE IF removes THEN r.dest \ {fname}
                  ELSE r.dest,
         !.tmp = IF moves THEN r.tmp \ {fname} ELSE r.tmp,
         !.log = Append(r.log,
                        [file |-> fname, existed |-> exists,
                         prompted |-> asks,
                         answer |-> IF asks THEN answer ELSE "",
                         removed |-> removes, moved |-> moves])]

\* transfer_timelapse_photos.py lines 181-188: the temporary directory is
\* removed when it is empty, reported otherwise
end_move(r) ==
  [r EXCEPT !.at = "delete",
            !.done = r.done \cup (IF r.tmp = {} THEN {"move", "rmdir"}
                                  ELSE {"move"})]

\* transfer_timelapse_photos.py lines 190-202, timelapse_file_mover.py
\* lines 136-148
delete_source(r, answer) ==
  [r EXCEPT !.at = "eject",
            !.done = IF answer = "y" THEN r.done \cup {"remove_source"}
                     ELSE r.done]

\* transfer_timelapse_photos.py lines 204-213, timelapse_file_mover.py
\* lines 150-158: a failed eject is caught and reported; the script ends
eject_source(r, answer) ==
  LET r1 == [r EXCEPT !.done = IF answer = "y" THEN r.done \cup {"eject"}
                               ELSE r.done]
  IN  IF r.script = "transfer_timelapse_photos"
      THEN sys_exit(r1, RC_NOERRS)
      ELSE [r1 EXCEPT !.at = "exited", !.exit_code = 0, !.exit_by = "end"]

\* python <script>, in some environment
InitScripts ==
  /\ module = "none"
  /\ col_alias = <<>>
  /\ headers = <<>>
  /\ pc = "idle"
  /\ call = NoCall
  /\ frames = <<>>
  /\ lookups = <<>>
  /\ result = NoResult
  /\ verdict = NoVerdict
  /\ threads = [t \in Threads |-> IdleThread]
  /\ \E s \in Scripts, nt \in BOOLEAN, antexe \in BOOLEAN, batch \in BOOLEAN,
        srcdir \in {"missing", "empty", "files"} :
       run = [script |-> s, at |-> "import", nt |-> nt, antexe |-> antexe,
              batch |-> batch, srcdir |-> srcdir, done |-> {},
              failed |-> "none", exit_code |-> 0, exit_by |-> "none",
              todo |-> <<>>, tmp |-> {}, dest |-> {}, overwrite |-> FALSE,
              confirm |-> "", log |-> <<>>]

ScriptFrame ==
  UNCHANGED <<module, col_alias, headers, pc, call, frames, lookups,
              result, verdict, threads>>

ImportScript ==
  /\ run.at = "import"
  /\ run' = import_script(run)
  /\ ScriptFrame

EnterMain ==
  /\ run.at = "main"
  /\ run' = enter_main(run)
  /\ ScriptFrame

ListFiles ==
  /\ run.at = "listdir"
  /\ run' = list_files(run)
  /\ ScriptFrame

Choose ==
  /\ run.at = "choose"
  /\ \E choice \in Choices : run' = choose(run, choice)
  /\ ScriptFrame

Confirm ==
  /\ run.at = "confirm"
  /\ \E answer \in Answers, made \in BOOLEAN : run' = confirm(run, answer, made)
  /\ ScriptFrame

\* A program that is not installed cannot exit with status 0.
CopyFiles ==
  /\ run.at = "copy"
  /\ \E status \in ToolStatus : run' = copy_files(run, status)
  /\ ScriptFrame

RenameFiles ==
  /\ run.at = "rename"
  /\ \E status \in ToolStatus :
       /\ (status = 0) => run.antexe
       /\ run' = rename_files(run, status)
  /\ ScriptFrame

MoveFiles ==
  /\ run.at = "move"
  /\ \E dest \in SUBSET { TmpFiles[i] : i \in DOMAIN TmpFiles } :
       run' = move_files(run, dest)
  /\ ScriptFrame

MoveFile ==
  /\ run.at = "moving"
  /\ run.todo # <<>>
  /\ \E answer \in OverwriteAnswers, renamed \in BOOLEAN :
       run' = move_file(run, answer, renamed)
  /\ ScriptFrame

EndMove ==
  /\ run.at = "moving"
  /\ run.todo = <<>>
  /\ run' = end_move(run)
  /\ ScriptFrame

DeleteSource ==
  /\ run.at = "delete"
  /\ \E answer \in Answers : run' = delete_source(run, answer)
  /\ ScriptFrame

EjectSource ==
  /\ run.at = "eject"
  /\ \E answer \in Answers : run' = eject_source(run, answer)
  /\ ScriptFrame

NextScripts ==
  \/ ImportScript
  \/ EnterMain
  \/ ListFiles
  \/ Choose
  \/ Confirm
  \/ CopyFiles
  \/ RenameFiles
  \/ MoveFiles
  \/ MoveFile
  \/ EndMove
  \/ DeleteSource
  \/ EjectSource

SpecScripts == InitScripts /\ [][NextScripts]_vars

(***************************************************************************)
(* python/SDTransferUtility.py: the window after construction, and the     *)
(* callbacks of its buttons and of the pop-up menu that decide the state   *)
(* of the 'Begin processing' button.  The image files on the drives are    *)
(* the environment; a file is a record of its drive, the number of its     *)
(* DCIM directory and its name, and directories sort by that number.       *)
(***************************************************************************)

\* Image files matching the search pattern that the drives can hold.
SourceFiles ==
  { [root |-> "F", dir |-> 100, name |-> "a.jpg"],
    [root |-> "F", dir |-> 100, name |-> "b.jpg"],
    [root |-> "F", dir |-> 101, name |-> "c.jpg"],
    [root |-> "H", dir |-> 100, name |-> "d.jpg"] }

\* definitions.paths.SD_DRIVE, the initial search directory (line 52), and
\* the directories the user can browse to
SD_DRIVE == "F"
SearchDirs == {"F", "H"}

\* Codes of definitions.sites.site_list offered by the pop-up menu.
SiteCodes == {"CFNT", "LIND"}

\* TIMELAPSE_PHOTO_DIR % {'code' : code}, line 245
dest_dir(code) ==
  CASE code = "CFNT" -> "photos_timelapse/CFNT"
    [] code = "LIND" -> "photos_timelapse/LIND"
    [] OTHER -> "photos_timelapse"

\* self._sources after clear()
NoSources ==
  [d \in {} |-> [dest_dir |-> None, site_code |-> None, dest_names |-> {}]]

\* __search, lines 286-297: _sources is rebuilt from the files found, every
\* directory without destination and site; then the tree is refreshed
search(r) ==
  LET found == { f \in r.disk : f.root = r.search_dir }
  IN  [r EXCEPT !.sources =
         [d \in { f.dir : f \in found } |->
            [dest_dir |-> None, site_code |-> None,
             dest_names |-> { f \in found : f.dir = d }]]]

\* __set_search_dir, lines 229-240: choice is what askdirectory returns, ""
\* when the dialog is cancelled
set_search_dir(r, choice) ==
  IF choice = "" THEN r
  ELSE [r EXCEPT !.search_dir = choice,
                 !.sources = IF choice # r.search_dir THEN NoSources
                             ELSE r.sources]

\* __enable_processing, lines 275-283
enable_processing(r) ==
  [r EXCEPT !.begin_proc_btn =
     IF \E d \in DOMAIN r.sources :
          r.sources[d].dest_dir = None \/ r.sources[d].site_code = None
     THEN "disabled" ELSE "normal"]

\* __set_srcdir_site, lines 243-251, for the tree row iid of a directory;
\* refreshed tells whether __refresh_treeview returns (it reads the EXIF
\* tags of every file and raises when one cannot be read)
set_srcdir_site(r, iid, code, refreshed) ==
  LET r1 == [r EXCEPT !.sources[iid].dest_dir = dest_dir(code),
                      !.sources[iid].site_code = code]
  IN  IF refreshed THEN enable_processing(r1) ELSE r1

\* __transfer_images with __move_image, lines 386-416: directories in
\* sorted order; os.makedirs(None) raises and ends the callback; moved are
\* the files os.rename succeeds on; the search is repeated at the end
transfer_images(r, moved) ==
  LET unset   == { d \in DOMAIN r.sources : r.sources[d].dest_dir = None }
      reached == { d \in DOMAIN r.sources : \A u \in unset : d < u }
      tried   == UNION { r.sources[d].dest_names : d \in reached }
      r1      == [r EXCEPT !.disk = r.disk \ (tried \cap moved),
                           !.moved = r.moved \cup (tried \cap moved)]
  IN  IF unset # {} THEN [r1 EXCEPT !.error = "makedirs"]
      ELSE search([r1 EXCEPT !.error = ""])

\* SDTransferUtility() (lines 44-61): the button is created disabled (line
\* 200) and the first search is made in SD_DRIVE
InitGui ==
  /\ module = "none"
  /\ col_alias = <<>>
  /\ headers = <<>>
  /\ pc = "idle"
  /\ call = NoCall
  /\ frames = <<>>
  /\ lookups = <<>>
  /\ result = NoResult
  /\ verdict = NoVerdict
  /\ threads = [t \in Threads |-> IdleThread]
  /\ \E disk \in SUBSET SourceFiles :
       run = search([script |-> "SDTransferUtility", disk |-> disk,
                     search_dir |-> SD_DRIVE, sources |-> NoSources,
                     begin_proc_btn |-> "disabled", moved |-> {},
                     error |-> ""])

\* The 'Search' button
Search ==
  /\ run' = search(run)
  /\ ScriptFrame

\* The 'Browse' button of the search directory
SetSearchDir ==
  /\ \E choice \in SearchDirs \cup {""} : run' = set_search_dir(run, choice)
  /\ ScriptFrame

\* A site chosen from the pop-up menu of a directory row
SetSrcdirSite ==
  /\ \E iid \in DOMAIN run.sources, code \in SiteCodes,
        refreshed \in BOOLEAN :
       run' = set_srcdir_site(run, iid, code, refreshed)
  /\ ScriptFrame

\* The 'Begin processing' button, which Tk lets the user press only while
\* it is enabled
TransferImages ==
  /\ run.begin_proc_btn = "normal"
  /\ \E moved \in SUBSET SourceFiles : run' = transfer_images(run, moved)
  /\ ScriptFrame

NextGui ==
  \/ Search
  \/ SetSearchDir
  \/ SetSrcdirSite
  \/ TransferImages

SpecGui == InitGui /\ [][NextGui]_vars

TypeOK ==
  /\ module \in {"definitions", "obj2core", "none"}
  /\ pc \in {"idle", "running", "returned", "raised", "verified"}
  /\ Len(frames) <= recursion_limit
  /\ (pc = "running") = (frames # <<>>)
(***************************************************************************)
(* Properties.                                                             *)
(***************************************************************************)

Finished == pc \in {"returned", "raised"}

Started == pc \in {"running", "returned", "raised"}

RetiredMarker == <<None, None>>

\* C1: for every key of the shipped col_alias, current_names terminates:
\* the chain of lookups never comes back to a pair already looked up, and it
\* ends at a key whose value is (None, None) or ('', ''), never in an
\* exception.
C1_ShippedChainsTerminate ==
  (Started /\ call \in DOMAIN col_alias) =>
    /\ \A i, j \in DOMAIN lookups : i # j => lookups[i] # lookups[j]
    /\ pc = "running" =>
         /\ \A i \in DOMAIN lookups : lookups[i] # frames[Len(frames)]
         /\ frames[Len(frames)] \in DOMAIN col_alias
    /\ pc # "raised"
    /\ pc = "returned" =>
         col_alias[lookups[Len(lookups)]] \in {<<None, None>>, <<"", "">>}

C1_Witness ==
  /\ pc = "returned"
  /\ call \in DOMAIN col_alias
  /\ Len(lookups) = 4

\* C2: for every key k of col_alias, current_names(k) is the retirement
\* marker (None, None) or a pair r that is a key with stored value ('', ''),
\* and current_names(r) returns r.
C2_ResultIsCanonical ==
  (pc = "returned" /\ call \in DOMAIN col_alias) =>
    \/ result.value = RetiredMarker
    \/ /\ result.value \in DOMAIN col_alias
       /\ col_alias[result.value] = <<"", "">>
       /\ current_names(module, col_alias, result.value[1], result.value[2])
            = Return(result.value)

C2_Witness ==
  /\ pc = "returned"
  /\ module = "definitions"
  /\ call = <<"flux", "l">>
  /\ result.value = <<"stats30", "L">>

\* C3: for every key k and every pair p that current_names looks up while
\* resolving k (k itself and each intermediate link), current_names(p) ends
\* exactly as current_names(k) did.
C3_SameResultFromEveryLink ==
  (Finished /\ call \in DOMAIN col_alias) =>
    \A i \in DOMAIN lookups :
      current_names(module, col_alias, lookups[i][1], lookups[i][2]) = result

C3_Witness ==
  /\ pc = "returned"
  /\ module = "definitions"
  /\ call = <<"flux", "WS_ms_WVc(1)">>
  /\ lookups = << <<"flux", "WS_ms_WVc(1)">>, <<"flux", "034b_ws">>,
                  <<"CFNT_stats30", "Met1_wnd_spd">>,
                  <<"stats30", "Met1_wnd_spd">> >>

\* C4: current_names('flux', 'l') returns ('stats30', 'L').
C4_FluxLowerL ==
  (Finished /\ call = <<"flux", "l">>) => result = Return(<<"stats30", "L">>)

C4_Witness ==
  /\ pc = "returned"
  /\ module = "definitions"
  /\ call = <<"flux", "l">>
  /\ <<"CFNT_stats30", "L">> \in { lookups[i] : i \in DOMAIN lookups }

\* C5: for every pair that is no key of col_alias, current_names raises the
\* module's lookup error (ColumnNotFoundError in definitions, KeyError in
\* obj2core) at the first lookup and returns nothing.
C5_UnknownPairRaises ==
  (Finished /\ call \notin DOMAIN col_alias) =>
    /\ pc = "raised"
    /\ result = Raise(IF module = "definitions" THEN "ColumnNotFoundError"
                      ELSE "KeyError")
    /\ lookups = <<call>>

C5_Witness ==
  /\ pc = "raised"
  /\ module = "definitions"
  /\ call = <<"bogus_table", "x">>

\* C6: current_names('flux', 'gps_ready') and
\* current_names('flux', 'sonic_cal_err_f_Tot') return (None, None).
C6_DroppedColumns ==
  (Finished /\ call \in { <<"flux", "gps_ready">>,
                          <<"flux", "sonic_cal_err_f_Tot">> }) =>
    result = Return(RetiredMarker)

C6_Witness ==
  /\ pc = "returned"
  /\ module = "definitions"
  /\ call = <<"flux", "sonic_cal_err_f_Tot">>

\* C7: for every key whose stored value is ('', ''), current_names returns
\* the key itself after a single lookup; so for ('stats30', 'L').
C7_CurrentNamesUnchanged ==
  /\ (Finished /\ call \in DOMAIN col_alias /\ col_alias[call] = <<"", "">>)
       => (result = Return(call) /\ lookups = <<call>>)
  /\ (Finished /\ call = <<"stats30", "L">>)
       => (result = Return(<<"stats30", "L">>) /\ lookups = <<call>>)

C7_Witness ==
  /\ pc = "returned"
  /\ module = "definitions"
  /\ call = <<"stats30", "L">>

\* C8: every (table, column) of the header definitions (table_definitions,
\* df_hdr) is a key of col_alias, current_names returns it unchanged, and
\* the header checker run on the shipped module returns True.
C8_HeadersAreCurrent ==
  /\ header_entries(headers) \subseteq DOMAIN col_alias
  /\ (Finished /\ call \in header_entries(headers)) => result = Return(call)
  /\ (verdict.op = "verify_table_definitions") =>
       (verdict.kind = "return" /\ verdict.value = TRUE)

C8_Witness ==
  /\ pc = "verified"
  /\ module = "definitions"
  /\ verdict.op = "verify_table_definitions"
  /\ verdict.value = TRUE
  /\ <<"stats5_ui", "tblcalls_Tot">> \in header_entries(headers)

\* Whether the chain from key k stops at a pair that has no entry.
LookupFails(k) ==
  LET r == current_names(module, col_alias, k[1], k[2])
  IN  r.kind = "raise" /\ r.exc \in {"KeyError", "ColumnNotFoundError"}

\* Whether the chain from key k runs into the recursion limit.
Overflows(k) ==
  LET r == current_names(module, col_alias, k[1], k[2])
  IN  r.kind = "raise" /\ r.exc = "RuntimeError"

\* C9: for any alias table (without cycles), a checker run visits every key
\* and ends by returning: it returns False when some lookup fails on a
\* missing key, every such key being reported, and no exception leaves
\* the checker.
C9_CheckerReportsMissingKeys ==
  LET walked == IF verdict.op = "verify_col_alias" THEN DOMAIN col_alias
                ELSE header_entries(headers)
      failing == { k \in walked : LookupFails(k) }
  IN  (verdict.op # "none" /\ \A k \in walked : ~Overflows(k)) =>
        /\ verdict.kind = "return"
        /\ failing \subseteq verdict.warnings
        /\ (failing # {}) => (verdict.value = FALSE)

\* C10: for every key whose stored value is a rename, the pair obtained by
\* filling the blank components of the value from the key is itself a key
\* of col_alias.
C10_RenameTargetsAreKeys ==
  \A k \in DOMAIN col_alias :
    LET b == current_names_body(module, col_alias, k[1], k[2])
    IN  b.kind = "recurse" => b.value \in DOMAIN col_alias

C10_Witness ==
  /\ pc = "running"
  /\ module = "definitions"
  /\ frames = << <<"flux", "L">>, <<"CFNT_stats30", "L">> >>
  /\ col_alias[<<"flux", "L">>] = <<"CFNT_stats30", "">>

\* The pairs the call has reached so far, in order: those looked up and,
\* while the call runs, the one about to be looked up.
Path == IF pc = "running" THEN frames ELSE lookups

\* C11: no step of a current_names call and no checker run changes
\* col_alias or the header definitions.
C11_TablesNeverChange ==
  [][col_alias' = col_alias /\ headers' = headers]_vars

C11_Witness ==
  /\ pc = "raised"
  /\ module = "definitions"
  /\ call = <<"bogus_table", "x">>
  /\ col_alias = definitions_col_alias
  /\ headers = definitions_table_definitions

\* C13: resolving ('flux', 'WS_ms_WVc(1)') looks up, in this order, the key
\* itself, ('flux', '034b_ws'), ('CFNT_stats30', 'Met1_wnd_spd') and
\* ('stats30', 'Met1_wnd_spd'), and returns ('stats30', 'Met1_wnd_spd').
C13_WindSpeedChain ==
  LET chain == << <<"flux", "WS_ms_WVc(1)">>, <<"flux", "034b_ws">>,
                  <<"CFNT_stats30", "Met1_wnd_spd">>,
                  <<"stats30", "Met1_wnd_spd">> >>
  IN  (Started /\ call = <<"flux", "WS_ms_WVc(1)">>) =>
        /\ Len(Path) <= Len(chain)
        /\ Path = SubSeq(chain, 1, Len(Path))
        /\ Finished => (lookups = chain
                        /\ result = Return(<<"stats30", "Met1_wnd_spd">>))

C13_Witness ==
  /\ pc = "returned"
  /\ module = "definitions"
  /\ call = <<"flux", "WS_ms_WVc(1)">>
  /\ Len(lookups) = 4
  /\ lookups[3] = <<"CFNT_stats30", "Met1_wnd_spd">>

\* C14 as claimed: for any alias table, a key whose stored value is the key
\* itself is returned unchanged.
C14_ValueEqualToKeyReturned ==
  (Finished /\ call \in DOMAIN col_alias /\ col_alias[call] = call) =>
    result = Return(call)

\* C14 as amended: for any alias table, a key stored with the blank
\* sentinel ('', '') is returned unchanged after one lookup; a key whose
\* stored value is the key itself is looked up again and again, the call
\* never returns and ends only at the recursion limit.
C14_OnlyBlankSentinelIsFixedPoint ==
  /\ (Finished /\ call \in DOMAIN col_alias /\ col_alias[call] = <<"", "">>)
       => (result = Return(call) /\ lookups = <<call>>)
  /\ (Started /\ call \in DOMAIN col_alias /\ col_alias[call] = call) =>
       /\ \A i \in DOMAIN Path : Path[i] = call
       /\ pc # "returned"
       /\ pc = "raised" => (result = Raise("RuntimeError")
                            /\ Len(lookups) = recursion_limit)

C14_Witness ==
  /\ pc = "raised"
  /\ call = <<"a", "x">>
  /\ call \in DOMAIN col_alias
  /\ col_alias[call] = <<"a", "x">>
  /\ result.exc = "RuntimeError"

\* C15: every key of obj2core.col_alias is a key of definitions.col_alias,
\* so a pair that obj2core's table has an entry for is never an unknown
\* pair for definitions' table.
C15_TableOnlyGrows ==
  /\ DOMAIN obj2core_col_alias \subseteq DOMAIN definitions_col_alias
  /\ (module = "definitions" /\ Finished
        /\ call \in DOMAIN obj2core_col_alias)
       => result.exc # "ColumnNotFoundError"

C15_Witness ==
  /\ module = "definitions"
  /\ pc = "returned"
  /\ call = <<"stats30_hfp", "soil_hfp1_heat_flux_Avg">>
  /\ obj2core_col_alias[call] = <<"", "">>
  /\ result.value = <<"stats30", "soil_hfp1_heat_flux_Avg">>

\* C19: one resolution step fills blanks component-wise: from key (t, c)
\* with value ('', c2) the next lookup is (t, c2); with value (t2, '') it
\* is (t2, c); with value (t2, c2), neither blank, it is (t2, c2).
C19_StepFillsBlanks ==
  \A i \in 1 .. (Len(Path) - 1) :
    LET k == Path[i]
        v == col_alias[k]
        n == Path[i + 1]
    IN  /\ k \in DOMAIN col_alias
        /\ (v[1] = "" /\ v[2] # "") => n = <<k[1], v[2]>>
        /\ (v[1] # "" /\ v[2] = "") => n = <<v[1], k[2]>>
        /\ (v[1] # "" /\ v[2] # "") => n = v

C19_Witness ==
  /\ pc = "raised"
  /\ lookups = << <<"a", "x">>, <<"a", "y">>, <<"b", "y">> >>
  /\ col_alias[<<"a", "x">>] = <<"", "y">>
  /\ col_alias[<<"a", "y">>] = <<"b", "">>

\* C20: if any pair looked up while resolving a key has the stored value
\* (None, None), the call returns (None, None); ('flux', 'Tc_stdev') goes
\* to ('CFNT_stats30', 'Tc_Std') and returns (None, None).
C20_RetirementPropagates ==
  /\ (Finished /\ \E i \in DOMAIN lookups :
                    /\ lookups[i] \in DOMAIN col_alias
                    /\ col_alias[lookups[i]] = RetiredMarker)
       => result = Return(RetiredMarker)
  /\ (Finished /\ call = <<"flux", "Tc_stdev">>) =>
       /\ lookups = << <<"flux", "Tc_stdev">>, <<"CFNT_stats30", "Tc_Std">> >>
       /\ result = Return(RetiredMarker)

C20_Witness ==
  /\ pc = "returned"
  /\ module = "definitions"
  /\ call = <<"flux", "Tc_stdev">>
  /\ Len(lookups) = 2
  /\ result = Return(RetiredMarker)

\* C12: with the calls of several threads interleaved in any order, each
\* call ends exactly as current_names ends on the same arguments when run
\* alone, and the pairs a running call has reached are those of its own
\* chain.
C12_InterleavedCallsAgree ==
  \A t \in Threads :
    LET th == threads[t]
    IN  /\ th.pc \in {"returned", "raised"} =>
             th.result = current_names(module, col_alias,
                                       th.call[1], th.call[2])
        /\ th.pc = "running" =>
             /\ th.frames[1] = th.call
             /\ \A i \in 1 .. (Len(th.frames) - 1) :
                  current_names_body(module, col_alias, th.frames[i][1],
                                     th.frames[i][2])
                    = Recurse(th.frames[i + 1])

C12_Witness ==
  /\ threads["t1"].pc = "running"
  /\ Len(threads["t1"].frames) = 2
  /\ threads["t2"].pc = "returned"
  /\ threads["t2"].call # threads["t1"].call
  /\ threads["t2"].result.value = threads["t2"].call

Exited == run.script \in Scripts /\ run.at = "exited"

\* C16: in the photo-transfer scripts, a run in which Ant Renamer exited
\* with a non-zero status ends with return code 5, and a run in which xcopy
\* exited with a non-zero status ends with return code 6.
C16_ToolFailureExitCodes ==
  (Exited /\ run.antexe) =>
    /\ (run.failed = "renamer") => (run.exit_code = RC_ANTERR)
    /\ (run.failed = "xcopy") => (run.exit_code = RC_CPYERR)

\* C17 (as stated): in each script that documents exit codes, a run whose
\* source directory cannot be found ends with return code 1 and has copied,
\* renamed and deleted nothing.
C17_MissingSourceExitsOne ==
  (Exited /\ run.srcdir = "missing") =>
    (run.exit_code = RC_NOSRCDIR /\ run.done = {})

\* C17 (amended): a run on Windows (and, for transfer_timelapse_photos.py,
\* with Ant Renamer located at import) whose source directory cannot be
\* found ends with exit status 1, through sys.exit(RC_NOSRCDIR) in
\* transfer_timelapse_photos.py and through the uncaught WindowsError in
\* timelapse_file_mover.py, and has copied, renamed and deleted nothing;
\* outside Windows the run ends with 7 and, in transfer_timelapse_photos.py
\* without Ant Renamer, with 3, whatever the state of the source directory.
C17_MissingSourceExitsOneOnceListed ==
  (Exited /\ run.srcdir = "missing") =>
    /\ run.done = {}
    /\ run.exit_code =
         IF run.script = "transfer_timelapse_photos" /\ ~run.antexe
         THEN RC_NOANTEXE
         ELSE IF ~run.nt THEN RC_ENVERR
         ELSE RC_NOSRCDIR
    /\ run.exit_by =
         IF run.script = "timelapse_file_mover" /\ run.nt
         THEN "WindowsError" ELSE "sys.exit"

C17_Witness ==
  /\ Exited
  /\ run.script = "timelapse_file_mover"
  /\ run.srcdir = "missing"
  /\ run.nt
  /\ run.exit_code = RC_NOSRCDIR
  /\ run.done = {}

\* C18: in timelapse_file_mover.py, a run without the Ant Renamer executable
\* never reaches or invokes the rename command, and when it gets as far as
\* the rename step's place in the script it has ended with return code 3.
C18_MissingRenamerExitsThree ==
  (run.script = "timelapse_file_mover" /\ ~run.antexe) =>
    /\ run.at # "rename"
    /\ "renamer" \notin run.done

\* C21: for every key of the shipped col_alias tables, resolving it takes at
\* most 6 nested current_names invocations (one dictionary lookup each),
\* the caller's invocation included.
C21_AtMostSixInvocations ==
  (Started /\ call \in DOMAIN col_alias) =>
    /\ Len(frames) <= 6
    /\ Len(lookups) <= 6

C21_Witness ==
  /\ pc = "running"
  /\ call \in DOMAIN col_alias
  /\ Len(frames) = 4
  /\ Len(lookups) = 3

\* C22: for any alias table, a call for a key whose chain arrives at a pair
\* that is no key ends by raising the module's lookup error to the caller
\* (ColumnNotFoundError in definitions, KeyError in obj2core); it returns
\* neither a pair reached on the way nor (None, None).
C22_DanglingChainRaises ==
  (Finished /\ call \in DOMAIN col_alias
     /\ lookups[Len(lookups)] \notin DOMAIN col_alias) =>
    /\ pc = "raised"
    /\ result = Raise(IF module = "definitions" THEN "ColumnNotFoundError"
                      ELSE "KeyError")

C22_Witness ==
  /\ pc = "raised"
  /\ module = "obj2core"
  /\ call \in DOMAIN col_alias
  /\ Len(lookups) = 2
  /\ lookups[2] \notin DOMAIN col_alias
  /\ result.exc = "KeyError"

\* The pairs current_names is entered with in a call for k, the first n + 1
\* of them.
RECURSIVE chain_from(_, _)
chain_from(k, n) ==
  LET b == current_names_body(module, col_alias, k[1], k[2])
  IN  IF n = 0 \/ b.kind # "recurse" THEN <<k>>
      ELSE <<k>> \o chain_from(b.value, n - 1)

\* Whether the chain from k comes back to a pair already visited: with n
\* keys, n + 1 invocations that all recurse visit some key twice.
OnOrIntoCycle(k) ==
  LET c == chain_from(k, Cardinality(DOMAIN col_alias) + 1)
  IN  \E i, j \in DOMAIN c : i < j /\ c[i] = c[j]

\* C23: for an alias table with a cycle, a call for a key on the cycle or
\* leading into it never returns a result: no invocation detects the
\* repetition, each one calls the next, and the call can end only in the
\* interpreter's recursion-limit error, with every invocation up to the
\* limit made.
C23_CycleNeverReturns ==
  (Started /\ OnOrIntoCycle(call)) =>
    /\ pc # "returned"
    /\ pc = "raised" => /\ result = Raise("RuntimeError")
                        /\ Len(lookups) = recursion_limit

C23_Witness ==
  /\ pc = "raised"
  /\ OnOrIntoCycle(call)
  /\ \E i \in DOMAIN lookups : lookups[i] # call
  /\ Len(lookups) = recursion_limit

\* C24: a run of the schema checker (_verify_table_definitions in
\* definitions, verify_headers in obj2core) over header definitions whose
\* entries are each absent from col_alias or resolved by current_names
\* returns, and it returns False exactly when some entry is absent from
\* col_alias or resolves to a pair other than itself, True otherwise.
C24_SchemaCheckerVerdict ==
  LET entries == header_entries(headers)
      res(e)  == current_names(module, col_alias, e[1], e[2])
      bad     == { e \in entries :
                     \/ e \notin DOMAIN col_alias
                     \/ res(e).kind = "return" /\ res(e).value # e }
  IN  (/\ verdict.op = "verify_table_definitions"
       /\ \A e \in entries :
            e \notin DOMAIN col_alias \/ res(e).kind = "return") =>
        /\ verdict.kind = "return"
        /\ verdict.value = (bad = {})

\* C25: the 5-minute and 30-minute statistics tables are renamed in
\* parallel: for every column c with both ('CFNT_stats30', c) and
\* ('CFNT_stats5', c) among the keys, the two resolve both to (None, None)
\* or to ('stats30', x) and ('stats5', x) with one column name x.
C25_StatsTablesRenamedInParallel ==
  \A k \in DOMAIN col_alias :
    (k[1] = "CFNT_stats30" /\ <<"CFNT_stats5", k[2]>> \in DOMAIN col_alias) =>
      LET r30 == current_names(module, col_alias, "CFNT_stats30", k[2])
          r5  == current_names(module, col_alias, "CFNT_stats5", k[2])
      IN  \/ r30 = Return(<<None, None>>) /\ r5 = Return(<<None, None>>)
          \/ /\ r30.kind = "return" /\ r5.kind = "return"
             /\ r30.value[1] = "stats30" /\ r5.value[1] = "stats5"
             /\ r30.value[2] = r5.value[2]

\* C26: in definitions, the keys of col_alias whose stored value is
\* ('', '') are exactly the (table, column) entries of table_definitions:
\* each such key names a table with a column list and a column in that list.
C26_CanonicalKeysAreSchemaEntries ==
  (module = "definitions") =>
    { k \in DOMAIN col_alias : col_alias[k] = <<"", "">> }
      = header_entries(headers)

\* C27: every value current_names returns for a key of the shipped table is
\* (None, None) or a pair of two non-empty strings, never a pair with a
\* blank component or with None on one side only; and no stored value has
\* None on one side only.
C27_ResultsAreRetiredOrFullNames ==
  /\ \A k \in DOMAIN col_alias :
       (col_alias[k][1] = None) <=> (col_alias[k][2] = None)
  /\ (pc = "returned" /\ call \in DOMAIN col_alias) =>
       \/ result.value = <<None, None>>
       \/ /\ result.value[1] \notin {None, ""}
          /\ result.value[2] \notin {None, ""}

C27_Witness ==
  /\ pc = "returned"
  /\ call \in DOMAIN col_alias
  /\ col_alias[call][1] = ""
  /\ col_alias[call][2] \notin {None, ""}
  /\ result.value[1] \notin {None, ""}
  /\ result.value[2] \notin {None, ""}

\* Whether the answer typed at the prompt of pass e is one of the given
\* letters, in either case.
Answered(e, letters) == e.prompted /\ lower(e.answer) \in letters

\* C29: while transfer_timelapse_photos.py moves the renamed files, a file
\* existing at the destination is removed only if the user answered y or a
\* (in either case) to the overwrite prompt for that file or answered a at
\* an earlier prompt; after an a answer no further prompt is shown; and a
\* file whose overwrite was declined is neither removed nor moved: it is
\* still in the temporary directory when the loop is over.
C29_OverwriteOnlyWhenAnswered ==
  (run.script = "transfer_timelapse_photos"
     /\ run.at \in {"moving", "delete", "eject", "exited"}) =>
    \A i \in DOMAIN run.log :
      LET e == run.log[i]
      IN  /\ e.removed =>
               /\ e.existed
               /\ \/ Answered(e, {"y", "a"})
                  \/ \E j \in 1..(i - 1) : Answered(run.log[j], {"a"})
          /\ e.prompted =>
               /\ e.existed
               /\ \A j \in 1..(i - 1) : ~Answered(run.log[j], {"a"})
          /\ (e.prompted /\ ~Answered(e, {"y", "a"})) =>
               /\ ~e.removed
               /\ ~e.moved
               /\ e.file \in run.tmp
               /\ e.file \in run.dest

C29_Witness ==
  /\ run.script = "transfer_timelapse_photos"
  /\ run.at = "delete"
  /\ Len(run.log) = 3
  /\ Answered(run.log[1], {"n"})
  /\ Answered(run.log[2], {"a"})
  /\ run.log[3].existed /\ ~run.log[3].prompted /\ run.log[3].removed
  /\ run.tmp = {"f1"}

\* C28: in SDTransferUtility, after any sequence of searches, changes of the
\* search directory, site assignments and transfers, the 'Begin processing'
\* button is enabled only if every source directory held in _sources has a
\* destination directory and a site code.
C28_ProcessingEnabledOnlyWhenAssigned ==
  (run.script = "SDTransferUtility" /\ run.begin_proc_btn = "normal") =>
    \A d \in DOMAIN run.sources :
      /\ run.sources[d].dest_dir # None
      /\ run.sources[d].site_code # None

====
